---- MODULE Spec2Model ----
(***************************************************************************)
(* Model of kailua_check: the constraint store and the mark solver         *)
(* (src/kailua_check/src/env.rs) with the ground fragment of the subtyping *)
(* and equality relations of src/kailua_check/src/ty/value.rs, the scopes  *)
(* of Env and the statement checker (src/kailua_check/src/check.rs), and   *)
(* the type lattice of src/kailua_check/src/ty.rs; and of the lexer of     *)
(* kailua_syntax (src/kailua_syntax/src/lex.rs).                           *)
(*                                                                         *)
(* Eighteen specifications share the variables:                            *)
(*   Spec        the three type-variable stores (tvar_sub, tvar_sup,       *)
(*               tvar_eq) driven by gen_tvar and the assert_tvar_* methods;*)
(*   SpecRel     the same with fewer bound types and one more call;        *)
(*   SpecStore   one Constraints store driven directly by add_bound,       *)
(*               add_relation and get_bound;                               *)
(*   SpecMark    the mark partition (mark_infos) driven by gen_mark and    *)
(*               the assert_mark_* methods;                                *)
(*   SpecCheck   Checker::visit_block over a chunk of statements;          *)
(*   SpecRequire the same over chunks that call require;                   *)
(*   SpecFunc    the same over chunks that declare functions;              *)
(*   SpecEnv     the scope stack of Env driven directly by enter, leave,   *)
(*               add_local_var, assign_to_var and assume_var;              *)
(*   SpecLattice union and intersect of the lattice of ty.rs;              *)
(*   SpecValue   union, assert_sub, assert_eq and Unioned::from followed   *)
(*               by simplify on a pair of value types of ty/value.rs,      *)
(*               with the TypeContext as an oracle;                        *)
(*   SpecUnioned Unioned::simplify on a Unioned of ty/union.rs;            *)
(*   SpecOp      Checker::check_bin_op on an operator and two operands;    *)
(*   SpecFor     visit_block over chunks of numeric for loops;             *)
(*   SpecLocal   visit_block over chunks of S::Local with several names;   *)
(*   SpecCycle   Checker::visit over chunks that require modules which     *)
(*               require themselves or each other, on a stack of bounded   *)
(*               depth and under weak fairness of the checker's steps;     *)
(*   SpecPart    one Partitions driven directly by find and union;         *)
(*   SpecLex     Lexer::next_token called repeatedly on an input;          *)
(*   SpecU16     Lexer::translate_u16 on a unit and what follows it.       *)
(* Bounds passed to the stores are ground, non-union types, so that        *)
(* assert_sub / assert_eq on them never call back into the context.        *)
(***************************************************************************)
EXTENDS Integers, Sequences, FiniteSets, TLC

\* ------------------------------------------------------------------ bounds

\* number of Context method calls (gen_tvar and assert_tvar_*) in one behaviour of Spec
MaxCalls == 5
\* the same in one behaviour of SpecRel
MaxRelCalls == 6
\* number of Constraints method calls in one behaviour of SpecStore
MaxStoreCalls == 5
\* number of Context method calls (gen_mark and assert_mark_*) in one behaviour of SpecMark
MaxMarkCalls == 6

\* ------------------------------------------------------------------- types

\* enum T (ground, non-union variants); v carries the literal of Int
MkT(tag, v) == [tag |-> tag, v |-> v]

T_Dynamic == MkT("Dynamic", 0)
T_All     == MkT("All", 0)
T_None    == MkT("None", 0)
T_Nil     == MkT("Nil", 0)
T_Boolean == MkT("Boolean", 0)
T_True    == MkT("True", 0)
T_False   == MkT("False", 0)
T_Integer == MkT("Integer", 0)
T_Number  == MkT("Number", 0)
T_String  == MkT("String", 0)
T_Int(n)  == MkT("Int", n)

\* Option<Ty>::None, the absent bound
NoBound == MkT("Absent", 0)

\* the types the callers of Spec pass as bounds
BoundTypes == {T_Dynamic, T_None, T_Integer, T_Number, T_String}
\* the types the callers of SpecRel pass as bounds (those of test_context_tvar's
\* "implicitly disjoint bounds" block)
RelTypes == {T_Integer, T_String}

\* T::assert_sub on ground non-union types: the match of assert_sub, arm by arm
SubType(a, b) ==
    IF a.tag = "Dynamic" \/ b.tag = "Dynamic" THEN TRUE
    ELSE IF b.tag = "All" THEN TRUE
    ELSE IF a.tag = "None" THEN TRUE
    ELSE IF b.tag = "None" THEN FALSE
    ELSE IF a.tag \in {"Nil", "Boolean", "True", "False", "Thread", "UserData"}
                /\ a.tag = b.tag THEN TRUE
    ELSE IF a.tag \in {"True", "False"} /\ b.tag = "Boolean" THEN TRUE
    ELSE IF a.tag \in {"Number", "Integer", "Int"} /\ b.tag = "Number" THEN TRUE
    ELSE IF a.tag \in {"Integer", "Int"} /\ b.tag = "Integer" THEN TRUE
    ELSE IF a.tag = "Int" /\ b.tag = "Int" THEN a.v = b.v
    ELSE IF a.tag = "String" /\ b.tag = "String" THEN TRUE
    ELSE FALSE

\* PartialEq for T on ground non-union types
TEq(a, b) == a.tag = b.tag /\ a.v = b.v

\* PartialEq for Option<Ty>
OptEq(a, b) ==
    IF a.tag = "Absent" \/ b.tag = "Absent" THEN a.tag = b.tag ELSE TEq(a, b)

\* ------------------------------------------------------- union-find stores

\* TVar ids: gen_tvar counts up from 0, one per call at most
TVars == 0 .. (IF MaxCalls > MaxRelCalls THEN MaxCalls ELSE MaxRelCalls) - 1

\* Mark ids: gen_mark counts up from 0, one per call at most
Marks == 0 .. MaxMarkCalls - 1

\* a slot of the VecMap without an entry
NoEntry == [present |-> FALSE, parent |-> 0, rank |-> 0, bound |-> NoBound]

\* Partition::create for Box<Bound>
CreateBound(parent, rank) ==
    [present |-> TRUE, parent |-> parent, rank |-> rank, bound |-> NoBound]

\* the loop of Partitions::find: follow parents from p up to a self-parented entry
RECURSIVE Climb(_, _)
Climb(map, p) ==
    IF ~map[p].present THEN p
    ELSE IF map[p].parent = p THEN p
    ELSE Climb(map, map[p].parent)

\* Partitions::find, the value returned
FindRoot(map, i) ==
    IF map[i].present THEN Climb(map, map[i].parent) ELSE i

\* Partitions::find, the map it leaves (path compression of i through the Cell)
FindMap(map, i) ==
    IF map[i].present /\ map[i].parent # i
    THEN [map EXCEPT ![i].parent = FindRoot(map, i)]
    ELSE map

\* entry(i).or_insert_with(|| Partition::create(i, 0))
Ensure(map, i, fresh) ==
    IF map[i].present THEN map ELSE [map EXCEPT ![i] = fresh]

\* Partitions::union that leaves the rank alone when the ranks are equal
UnionWith_KeepingRank(map, lhs, rhs, freshL, freshR) ==
    LET m1 == FindMap(map, lhs)
        l  == FindRoot(map, lhs)
        m2 == FindMap(m1, rhs)
        r  == FindRoot(m1, rhs)
    IN  IF l = r THEN [map |-> m2, new |-> r]
        ELSE LET m3 == Ensure(Ensure(m2, l, freshL), r, freshR)
             IN  IF m3[l].rank < m3[r].rank
                 THEN [map |-> [m3 EXCEPT ![l].parent = r], new |-> r]
                 ELSE [map |-> [m3 EXCEPT ![r].parent = l], new |-> l]

\* Partitions::union over a map whose fresh entries are `fresh(i)`
UnionWith(map, lhs, rhs, freshL, freshR) ==
    LET m1 == FindMap(map, lhs)
        l  == FindRoot(map, lhs)
        m2 == FindMap(m1, rhs)
        r  == FindRoot(m1, rhs)
    IN  IF l = r THEN [map |-> m2, new |-> r]
        ELSE LET m3 == Ensure(Ensure(m2, l, freshL), r, freshR)
                 lrank == m3[l].rank
                 rrank == m3[r].rank
             IN  IF lrank < rrank
                 THEN [map |-> [m3 EXCEPT ![l].parent = r], new |-> r]
                 ELSE IF lrank > rrank
                 THEN [map |-> [m3 EXCEPT ![r].parent = l], new |-> l]
                 ELSE [map |-> [m3 EXCEPT ![r].parent = l, ![l].rank = lrank + 1],
                       new |-> l]

\* Partitions<Box<Bound>>::union
Union(map, lhs, rhs) ==
    UnionWith(map, lhs, rhs, CreateBound(lhs, 0), CreateBound(rhs, 0))

\* ------------------------------------------------------------- Constraints

\* is_bound_trivial
IsBoundTrivial(t) == t.tag \in {"Absent", "None", "Dynamic"}

\* Constraints::is, with the store its two finds leave
ConstraintsIs(c, lhs, rhs) ==
    IF lhs = rhs THEN [c |-> c, is |-> TRUE]
    ELSE LET m1 == FindMap(c, lhs)
             m2 == FindMap(m1, rhs)
         IN  [c |-> m2, is |-> FindRoot(c, lhs) = FindRoot(m1, rhs)]

\* Constraints::get_bound(lhs).and_then(|b| b.bound.clone()), with the store find leaves
GetBound(c, lhs) ==
    LET root == FindRoot(c, lhs)
    IN  [c |-> FindMap(c, lhs),
         bound |-> IF c[root].present THEN c[root].bound ELSE NoBound]

\* add_bound without its "multiple bounds" rule: every call overwrites the bound
AddBound_Overwriting(c, lhs, rhs) ==
    LET lhs_ == FindRoot(c, lhs)
        m    == Ensure(FindMap(c, lhs), lhs_, CreateBound(lhs_, 0))
    IN  [c |-> [m EXCEPT ![lhs_].bound = rhs], ok |-> TRUE]

\* Constraints::add_bound
AddBound(c, lhs, rhs) ==
    LET lhs_ == FindRoot(c, lhs)
        m    == Ensure(FindMap(c, lhs), lhs_, CreateBound(lhs_, 0))
    IN  IF IsBoundTrivial(m[lhs_].bound)
        THEN [c |-> [m EXCEPT ![lhs_].bound = rhs], ok |-> TRUE]
        ELSE IF ~OptEq(m[lhs_].bound, rhs)
        THEN [c |-> m, ok |-> FALSE]
        ELSE [c |-> m, ok |-> TRUE]

\* take_bound that reads the bound and leaves it in place
TakeBound_Keeping(c, i) ==
    [c |-> c, bound |-> IF c[i].present THEN c[i].bound ELSE NoBound]

\* take_bound inside add_relation
TakeBound(c, i) ==
    IF c[i].present
    THEN [c |-> [c EXCEPT ![i].bound = NoBound], bound |-> c[i].bound]
    ELSE [c |-> c, bound |-> NoBound]

\* Constraints::add_relation
AddRelation(c, lhs, rhs) ==
    IF lhs = rhs THEN [c |-> c, ok |-> TRUE]
    ELSE
    LET lhs_ == FindRoot(c, lhs)
        m1   == FindMap(c, lhs)
        rhs_ == FindRoot(m1, rhs)
        m2   == FindMap(m1, rhs)
    IN  IF lhs_ = rhs_ THEN [c |-> m2, ok |-> TRUE]
        ELSE
        LET tl == TakeBound(m2, lhs_)
            tr == TakeBound(tl.c, rhs_)
            lhsbound == tl.bound
            rhsbound == tr.bound
            failed == IsBoundTrivial(lhsbound) /\ IsBoundTrivial(rhsbound)
                        /\ ~OptEq(lhsbound, rhsbound)
            bound == IF ~IsBoundTrivial(lhsbound) THEN rhsbound ELSE lhsbound
            u == Union(tr.c, lhs_, rhs_)
        IN  IF failed THEN [c |-> tr.c, ok |-> FALSE]
            ELSE IF ~IsBoundTrivial(bound)
            THEN [c |-> [u.map EXCEPT ![u.new].bound = bound], ok |-> TRUE]
            ELSE [c |-> u.map, ok |-> TRUE]

\* ------------------------------------------------------------- mark values

\* T::assert_eq on ground non-union types: the match of assert_eq, arm by arm
EqType(a, b) ==
    IF a.tag = "Dynamic" \/ b.tag = "Dynamic" THEN TRUE
    ELSE IF a.tag = "All" \/ b.tag = "All" THEN TRUE
    ELSE IF a.tag = "None" THEN TRUE
    ELSE IF b.tag = "None" THEN FALSE
    ELSE IF a.tag = "Int" /\ b.tag = "Int" THEN a.v = b.v
    ELSE IF a.tag \in {"Nil", "Boolean", "True", "False", "Thread", "UserData",
                       "Number", "Integer", "String"}
                /\ a.tag = b.tag THEN TRUE
    ELSE FALSE

\* Option<Mark>::None
NoMark == -1

\* MarkDeps::eq_types: None
NoEqTypes == [some |-> FALSE, base |-> NoBound, others |-> <<>>]

\* MarkDeps::eq_types: Some((base, others))
EqTypes(base, others) == [some |-> TRUE, base |-> base, others |-> others]

\* struct MarkDeps
MarkDeps(follows, precedes, eq_types) ==
    [follows |-> follows, precedes |-> precedes, eq_types |-> eq_types]

\* MarkDeps::new
NewMarkDeps == MarkDeps(NoMark, NoMark, NoEqTypes)

\* enum MarkValue; Unknown carries Option<Box<MarkDeps>>
MarkValue(k, some, deps) == [k |-> k, some |-> some, deps |-> deps]

V_Invalid == MarkValue("Invalid", FALSE, NewMarkDeps)
V_True    == MarkValue("True", FALSE, NewMarkDeps)
V_False   == MarkValue("False", FALSE, NewMarkDeps)
V_Unknown == MarkValue("Unknown", FALSE, NewMarkDeps)
V_Deps(deps) == MarkValue("Unknown", TRUE, deps)

\* a slot of mark_infos without an entry
NoMarkEntry == [present |-> FALSE, parent |-> 0, rank |-> 0, value |-> V_Unknown]

\* Partition::create for Box<MarkInfo>
CreateMark(parent, rank) ==
    [present |-> TRUE, parent |-> parent, rank |-> rank, value |-> V_Unknown]

\* the outcome of a mark method: the partition it leaves and Ok, Err or the panic
MarkRes(mi, res) == [mi |-> mi, res |-> res]

Panics == {"self-recursive mark resolution", "desynchronized dependency implication",
           "non-linear deps detected", "assertion failed", "unreachable",
           "unwrap on None"}

\* ------------------------------------------------------ scopes (env.rs)

\* the names of the checked programs; Vararg is the name `...` of check.rs
Names == {"p", "q"}
Vararg == "..."
ScopeNames == Names \cup {Vararg}

T_Table    == MkT("Table", 0)
T_Function == MkT("Function", 0)

\* struct TyInfo of check.rs: a type and an optional builtin tag
TyInfo(ty, builtin) == [ty |-> ty, builtin |-> builtin]

\* TyInfo::new
NewTyInfo(ty) == TyInfo(ty, "None")

\* no entry for a name in a HashMap of names
NoInfo == TyInfo(NoBound, "None")

\* the entry remove_local_var leaves for a name in the scope it is called on
Removed == TyInfo(MkT("Removed", 0), "None")

\* Scope::names of a new scope
NewNames == [n \in ScopeNames |-> NoInfo]

\* Scope::new; kind tells what pushed the scope ("env": the first scope of an
\* Env, "block": visit_block, "func" and "vararg func": visit_func_body of a
\* function declared without and with `...`, "for": a for loop) and left is
\* the number of statements of its block not yet visited
NewScope(kind, left) == [names |-> NewNames, kind |-> kind, left |-> left]

\* Scope::put
Put(scope, name, info) == [scope EXCEPT !.names[name] = info]

\* struct Lexer: bytes is the input, pos the index of the unit that read()
\* returns next (an unread unit is one step back), meta and eof its flags
Lexer(bytes, pos, meta, eof) == [bytes |-> bytes, pos |-> pos, meta |-> meta, eof |-> eof]

\* no Lexer has been made
NoLexer == Lexer(<<>>, 1, FALSE, FALSE)

\* Checker::visit before it is called
NoVisit == [status |-> "idle", loads |-> 0, skipped |-> 0]

\* ----------------------------------------------------------------- Context

VARIABLES
    next_tvar,   \* Context::next_tvar
    tvar_sub,    \* Context::tvar_sub, the upper bounds
    tvar_sup,    \* Context::tvar_sup, the lower bounds
    tvar_eq,     \* Context::tvar_eq, the tight bounds
    next_mark,   \* Context::next_mark
    mark_infos,  \* Context::mark_infos
    calls,       \* number of assert_* calls made so far
    last,        \* the latest assert_* call: method, arguments and result
    hist,        \* what earlier calls returned, as far as the properties need it
    globals,     \* the global scope shared by every Env of one check
    scopes,      \* Env::scopes of the running Checker and of the Checkers below it
    visit,       \* where Checker::visit stands: running, returned Ok or returned Err
    lexer        \* the Lexer: its input, its position in it, and its meta and eof flags

vars == <<next_tvar, tvar_sub, tvar_sup, tvar_eq, next_mark, mark_infos, calls, last, hist,
          globals, scopes, visit, lexer>>

checkVars == <<globals, scopes, visit, lexer>>

tvarVars == <<next_tvar, tvar_sub, tvar_sup, tvar_eq>>

\* the record kept in `last`: the method, its variable arguments a and b, its type
\* argument t, the bound the call found stored for a in the store it adds to, and
\* the result
Call(op, a, b, t, pre, res) ==
    [op |-> op, a |-> a, b |-> b, t |-> t, pre |-> pre, res |-> res]

NoCall == Call("none", -1, -1, NoBound, NoBound, "ok")

Res(ok) == IF ok THEN "ok" ELSE "err"

\* Constraints::new
NewConstraints == [v \in TVars |-> NoEntry]

\* assert_tvar_sub without the check against the exact bound
AssertTVarSub_NoExactCheck(sub, sup, eq, lhs, rhs) ==
    LET r  == AddBound(sub, lhs, rhs)
        lb == GetBound(sup, lhs)
    IN  IF ~r.ok THEN [sub |-> r.c, sup |-> sup, eq |-> eq, ok |-> FALSE]
        ELSE IF lb.bound # NoBound /\ ~SubType(lb.bound, rhs)
        THEN [sub |-> r.c, sup |-> lb.c, eq |-> eq, ok |-> FALSE]
        ELSE [sub |-> r.c, sup |-> lb.c, eq |-> eq, ok |-> TRUE]

\* Context::assert_tvar_sub on a ground bound
AssertTVarSub(sub, sup, eq, lhs, rhs) ==
    LET r  == AddBound(sub, lhs, rhs)
        eb == GetBound(eq, lhs)
        lb == GetBound(sup, lhs)
    IN  IF ~r.ok THEN [sub |-> r.c, sup |-> sup, eq |-> eq, ok |-> FALSE]
        ELSE IF eb.bound # NoBound /\ ~SubType(eb.bound, rhs)
        THEN [sub |-> r.c, sup |-> sup, eq |-> eb.c, ok |-> FALSE]
        ELSE IF lb.bound # NoBound /\ ~SubType(lb.bound, rhs)
        THEN [sub |-> r.c, sup |-> lb.c, eq |-> eb.c, ok |-> FALSE]
        ELSE [sub |-> r.c, sup |-> lb.c, eq |-> eb.c, ok |-> TRUE]

\* Context::assert_tvar_sup on a ground bound
AssertTVarSup(sub, sup, eq, lhs, rhs) ==
    LET r  == AddBound(sup, lhs, rhs)
        eb == GetBound(eq, lhs)
        ub == GetBound(sub, lhs)
    IN  IF ~r.ok THEN [sub |-> sub, sup |-> r.c, eq |-> eq, ok |-> FALSE]
        ELSE IF eb.bound # NoBound /\ ~SubType(rhs, eb.bound)
        THEN [sub |-> sub, sup |-> r.c, eq |-> eb.c, ok |-> FALSE]
        ELSE IF ub.bound # NoBound /\ ~SubType(rhs, ub.bound)
        THEN [sub |-> ub.c, sup |-> r.c, eq |-> eb.c, ok |-> FALSE]
        ELSE [sub |-> ub.c, sup |-> r.c, eq |-> eb.c, ok |-> TRUE]

\* Context::assert_tvar_eq on a ground bound
AssertTVarEq(sub, sup, eq, lhs, rhs) ==
    LET r  == AddBound(eq, lhs, rhs)
        ub == GetBound(sub, lhs)
        lb == GetBound(sup, lhs)
    IN  IF ~r.ok THEN [sub |-> sub, sup |-> sup, eq |-> r.c, ok |-> FALSE]
        ELSE IF ub.bound # NoBound /\ ~SubType(rhs, ub.bound)
        THEN [sub |-> ub.c, sup |-> sup, eq |-> r.c, ok |-> FALSE]
        ELSE IF lb.bound # NoBound /\ ~SubType(lb.bound, rhs)
        THEN [sub |-> ub.c, sup |-> lb.c, eq |-> r.c, ok |-> FALSE]
        ELSE [sub |-> ub.c, sup |-> lb.c, eq |-> r.c, ok |-> TRUE]

\* assert_tvar_sub_tvar that relates the lower bounds but not the upper bounds
AssertTVarSubTVar_NoUpper(sub, sup, eq, lhs, rhs) ==
    LET e  == ConstraintsIs(eq, lhs, rhs)
        r2 == AddRelation(sup, rhs, lhs)
    IN  IF e.is THEN [sub |-> sub, sup |-> sup, eq |-> e.c, ok |-> TRUE]
        ELSE [sub |-> sub, sup |-> r2.c, eq |-> e.c, ok |-> r2.ok]

\* Context::assert_tvar_sub_tvar
AssertTVarSubTVar(sub, sup, eq, lhs, rhs) ==
    LET e  == ConstraintsIs(eq, lhs, rhs)
        r1 == AddRelation(sub, lhs, rhs)
        r2 == AddRelation(sup, rhs, lhs)
    IN  IF e.is THEN [sub |-> sub, sup |-> sup, eq |-> e.c, ok |-> TRUE]
        ELSE IF ~r1.ok THEN [sub |-> r1.c, sup |-> sup, eq |-> e.c, ok |-> FALSE]
        ELSE [sub |-> r1.c, sup |-> r2.c, eq |-> e.c, ok |-> r2.ok]

\* Context::assert_tvar_eq_tvar
AssertTVarEqTVar(sub, sup, eq, lhs, rhs) ==
    LET r == AddRelation(eq, lhs, rhs)
    IN  [sub |-> sub, sup |-> sup, eq |-> r.c, ok |-> r.ok]

\* -------------------------------------------------- constraint-store steps

\* the type variables handed out so far
Live == 0 .. (next_tvar - 1)

\* Context::gen_tvar
GenTVar(cap) ==
    /\ calls < cap
    /\ next_tvar' = next_tvar + 1
    /\ calls' = calls + 1
    /\ UNCHANGED <<tvar_sub, tvar_sup, tvar_eq, next_mark, mark_infos, last, hist, checkVars>>

\* the part of a constraint-store step common to all methods
TVarStep(r, call) ==
    /\ tvar_sub' = r.sub
    /\ tvar_sup' = r.sup
    /\ tvar_eq' = r.eq
    /\ calls' = calls + 1
    /\ last' = call
    /\ UNCHANGED <<next_tvar, next_mark, mark_infos, checkVars>>

CallAssertTVarSub(types, cap) ==
    /\ calls < cap
    /\ \E v \in Live, t \in types :
         LET r == AssertTVarSub(tvar_sub, tvar_sup, tvar_eq, v, t)
         IN  /\ TVarStep(r, Call("assert_tvar_sub", v, -1, t,
                                  GetBound(tvar_sub, v).bound, Res(r.ok)))
             /\ hist' = [hist EXCEPT !.all_ok = @ /\ r.ok,
                                     !.ok_sub[v] = IF r.ok THEN t ELSE @]

CallAssertTVarSup(types, cap) ==
    /\ calls < cap
    /\ \E v \in Live, t \in types :
         LET r == AssertTVarSup(tvar_sub, tvar_sup, tvar_eq, v, t)
         IN  /\ TVarStep(r, Call("assert_tvar_sup", v, -1, t,
                                  GetBound(tvar_sup, v).bound, Res(r.ok)))
             /\ hist' = [hist EXCEPT !.all_ok = @ /\ r.ok,
                                     !.ok_sup[v] = IF r.ok THEN t ELSE @]

CallAssertTVarEq(types, cap) ==
    /\ calls < cap
    /\ \E v \in Live, t \in types :
         LET r == AssertTVarEq(tvar_sub, tvar_sup, tvar_eq, v, t)
         IN  /\ TVarStep(r, Call("assert_tvar_eq", v, -1, t,
                                  GetBound(tvar_eq, v).bound, Res(r.ok)))
             /\ hist' = [hist EXCEPT !.all_ok = @ /\ r.ok,
                                     !.ok_eq[v] = IF r.ok THEN t ELSE @]

CallAssertTVarSubTVar(cap) ==
    /\ calls < cap
    /\ \E u \in Live, v \in Live :
         LET r == AssertTVarSubTVar(tvar_sub, tvar_sup, tvar_eq, u, v)
             related == ConstraintsIs(tvar_eq, u, v).is
         IN  /\ TVarStep(r, Call("assert_tvar_sub_tvar", u, v, NoBound, NoBound, Res(r.ok)))
             /\ hist' = [hist EXCEPT
                   !.all_ok = @ /\ r.ok,
                   !.sub_tvar_ok = IF r.ok THEN @ \cup {<<u, v>>} ELSE @,
                   !.sub_tvar_linked = IF r.ok /\ ~related THEN @ \cup {<<u, v>>} ELSE @]

CallAssertTVarEqTVar(cap) ==
    /\ calls < cap
    /\ \E u \in Live, v \in Live :
         LET r == AssertTVarEqTVar(tvar_sub, tvar_sup, tvar_eq, u, v)
         IN  /\ TVarStep(r, Call("assert_tvar_eq_tvar", u, v, NoBound, NoBound, Res(r.ok)))
             /\ hist' = [hist EXCEPT !.all_ok = @ /\ r.ok]

\* what `hist` records:
\*   all_ok           no assert_* call has returned an error so far
\*   sub_tvar_ok      the pairs <<u, v>> for which assert_tvar_sub_tvar(u, v) returned Ok
\*   sub_tvar_linked  those of them that were not eq-related when the call was made
\*   ok_sub/sup/eq    per variable, the latest bound assert_tvar_sub/sup/eq returned Ok for
\*   implied          the pairs <<m, n>> for which assert_mark_imply(m, n) returned Ok
\*   edges            the pairs <<m, n>>, m # n, assert_mark_imply was called with
\*   linear           no class of marks has been given two followers or two predecessors
\*   mod_globals      the names a required module has assigned with no local of its own
\*   mod_locals       the names a required module has declared local
\*   own              the names the chunk itself has declared local or assigned
\*   nested_left      a function without `...` nested in one with `...` has been checked
NoHist ==
    [all_ok |-> TRUE, sub_tvar_ok |-> {}, sub_tvar_linked |-> {},
     implied |-> {}, edges |-> {}, linear |-> TRUE,
     mod_globals |-> {}, mod_locals |-> {}, own |-> {}, nested_left |-> FALSE,
     ok_sub |-> [v \in TVars |-> NoBound],
     ok_sup |-> [v \in TVars |-> NoBound],
     ok_eq  |-> [v \in TVars |-> NoBound]]

\* Context::new
Init ==
    /\ next_tvar = 0
    /\ tvar_sub = NewConstraints
    /\ tvar_sup = NewConstraints
    /\ tvar_eq = NewConstraints
    /\ next_mark = 0
    /\ mark_infos = [m \in Marks |-> NoMarkEntry]
    /\ calls = 0
    /\ last = NoCall
    /\ hist = NoHist
    /\ globals = NewNames
    /\ scopes = <<NewScope("env", 0)>>
    /\ lexer = NoLexer
    /\ visit = NoVisit

\* the callers of Context: any method, any live variable, any bound of BoundTypes
Next ==
    \/ GenTVar(MaxCalls)
    \/ CallAssertTVarSub(BoundTypes, MaxCalls)
    \/ CallAssertTVarSup(BoundTypes, MaxCalls)
    \/ CallAssertTVarEq(BoundTypes, MaxCalls)
    \/ CallAssertTVarSubTVar(MaxCalls)
    \/ CallAssertTVarEqTVar(MaxCalls)

Spec == Init /\ [][Next]_vars

\* the same callers with the bounds of RelTypes and one more call
NextRel ==
    \/ GenTVar(MaxRelCalls)
    \/ CallAssertTVarSub(RelTypes, MaxRelCalls)
    \/ CallAssertTVarSup(RelTypes, MaxRelCalls)
    \/ CallAssertTVarEq(RelTypes, MaxRelCalls)
    \/ CallAssertTVarSubTVar(MaxRelCalls)
    \/ CallAssertTVarEqTVar(MaxRelCalls)

SpecRel == Init /\ [][NextRel]_vars

\* ------------------------------------------- properties of the tvar stores

\* the bound stored for the class of v in store c
BoundOf(c, v) == GetBound(c, v).bound

\* a step that is an assert_* call (gen_tvar leaves `last` alone)
IsAssert == calls' = calls + 1 /\ next_tvar' = next_tvar

\* lower is absent, or upper is absent, or lower <: upper
Below(lower, upper) == lower = NoBound \/ upper = NoBound \/ SubType(lower, upper)

\* the call of this step is op(v, t)
IsCallOf(op, v, t) == last'.op = op /\ last'.a = v /\ last'.t = t

\* C1 as stated, for the method op adding to store c (cN is c after the step):
\* on a trivial stored bound the call stores its type and succeeds; repeating the
\* call succeeds; the next call on the variable with another type fails.
C1_AsStated(op, c, cN) ==
    last'.op = op =>
        /\ IsBoundTrivial(BoundOf(c, last'.a)) =>
              last'.res = "ok" /\ BoundOf(cN, last'.a) = last'.t
        /\ (last.op = op /\ last.a = last'.a /\ last.res = "ok"
                /\ IsBoundTrivial(last.pre)) =>
              IF last.t = last'.t THEN last'.res = "ok" ELSE last'.res = "err"

\* C1 (original statement): for a variable whose stored bound is trivial,
\* assert_tvar_sub / _sup / _eq (v, T) stores T and succeeds, repeating it succeeds,
\* and a later call on v with a type other than T fails.
C1_Original ==
    [][IsAssert =>
        /\ C1_AsStated("assert_tvar_sub", tvar_sub, tvar_sub')
        /\ C1_AsStated("assert_tvar_sup", tvar_sup, tvar_sup')
        /\ C1_AsStated("assert_tvar_eq", tvar_eq, tvar_eq')]_vars

\* what one bound-adding call does, for the method op adding to store c, where
\* cross says that the type agrees with the bounds of the other two stores
C1_Case(op, c, cN, cross) ==
    last'.op = op =>
        LET pre == BoundOf(c, last'.a)
        IN  /\ BoundOf(cN, last'.a) = IF IsBoundTrivial(pre) THEN last'.t ELSE pre
            /\ last'.res = "ok" <=> ((IsBoundTrivial(pre) \/ pre = last'.t) /\ cross)
            /\ (last.op = op /\ last.a = last'.a /\ last.t = last'.t /\ last.res = "ok")
                  => last'.res = "ok"

\* C1 (amended): on a trivial stored bound assert_tvar_sub / _sup / _eq (v, T)
\* stores T, and succeeds iff T agrees with the bounds v has in the other two
\* stores; a non-trivial stored bound B stays, and the call succeeds iff T = B and
\* T agrees with the other two stores; a successful call repeated at once succeeds.
C1_Amended ==
    [][IsAssert =>
        LET v == last'.a
            t == last'.t
        IN  /\ C1_Case("assert_tvar_sub", tvar_sub, tvar_sub',
                       Below(BoundOf(tvar_eq, v), t) /\ Below(BoundOf(tvar_sup, v), t))
            /\ C1_Case("assert_tvar_sup", tvar_sup, tvar_sup',
                       Below(t, BoundOf(tvar_eq, v)) /\ Below(t, BoundOf(tvar_sub, v)))
            /\ C1_Case("assert_tvar_eq", tvar_eq, tvar_eq',
                       Below(t, BoundOf(tvar_sub, v)) /\ Below(BoundOf(tvar_sup, v), t))]_vars

\* C1 witness: a second, different upper bound was refused and the first one kept
C1_Witness ==
    /\ last.op = "assert_tvar_sub" /\ last.res = "err"
    /\ ~IsBoundTrivial(last.pre) /\ last.t # last.pre
    /\ BoundOf(tvar_sub, last.a) = last.pre

\* C2 over the pairs `pairs` for which assert_tvar_sub_tvar returned Ok: right
\* after assert_tvar_sub(v2, string) succeeded, assert_tvar_sub(v1, integer) fails;
\* right after assert_tvar_sup(v1, string) succeeded, assert_tvar_sup(v2, integer) fails
C2_Over(pairs) ==
    \A p \in pairs :
        /\ (last = Call("assert_tvar_sub", p[2], -1, T_String, last.pre, "ok")
                /\ IsCallOf("assert_tvar_sub", p[1], T_Integer)) => last'.res = "err"
        /\ (last = Call("assert_tvar_sup", p[1], -1, T_String, last.pre, "ok")
                /\ IsCallOf("assert_tvar_sup", p[2], T_Integer)) => last'.res = "err"

\* C2 (original statement): the relation of assert_tvar_sub_tvar(v1, v2) links
\* the bounds: after it and then assert_tvar_sub(v2, string) succeeded,
\* assert_tvar_sub(v1, integer) fails, and symmetrically for lower bounds.
C2_Original == [][IsAssert => C2_Over(hist.sub_tvar_ok)]_vars

\* C2 (amended): the same, provided v1 and v2 were not already related in the
\* exact-bound store when assert_tvar_sub_tvar(v1, v2) was called.
C2_Amended == [][IsAssert => C2_Over(hist.sub_tvar_linked)]_vars

\* C2 witness: v1 <: v2 was recorded, v2 got the upper bound string, and
\* assert_tvar_sub(v1, integer) has just failed
C2_Witness ==
    /\ last.op = "assert_tvar_sub" /\ last.t = T_Integer /\ last.res = "err"
    /\ last.pre = T_String
    /\ \E p \in hist.sub_tvar_linked :
          p[1] = last.a /\ p[2] # last.a /\ hist.ok_sub[p[2]] = T_String

\* C3 (as stated): in the states reached through successful calls only, the
\* stored lower bound of a variable is a subtype of its stored upper bound: once
\* assert_tvar_sub(v, T) has succeeded, assert_tvar_sup(v, U) succeeds only if
\* U <: T, and the other way round.
C3_Claim ==
    [][(IsAssert /\ hist.all_ok) =>
        LET v == last'.a
        IN  /\ (last'.op = "assert_tvar_sup" /\ last'.res = "ok")
                  => Below(last'.t, hist.ok_sub[v])
            /\ (last'.op = "assert_tvar_sub" /\ last'.res = "ok")
                  => Below(hist.ok_sup[v], last'.t)
            /\ hist'.all_ok =>
                  \A w \in TVars : Below(BoundOf(tvar_sup', w), BoundOf(tvar_sub', w))]_vars

StoreVars == {0, 1, 2, 3}
StoreTypes == {T_Dynamic, T_None, T_Integer, T_String}

\* a step on the store kept in tvar_sub
StoreStep(c, call) ==
    /\ tvar_sub' = c
    /\ calls' = calls + 1
    /\ last' = call
    /\ UNCHANGED <<next_tvar, tvar_sup, tvar_eq, next_mark, mark_infos, hist, checkVars>>

StoreAddBound ==
    /\ calls < MaxStoreCalls
    /\ \E v \in StoreVars, t \in StoreTypes :
          LET r == AddBound(tvar_sub, v, t)
          IN  StoreStep(r.c, Call("add_bound", v, -1, t, BoundOf(tvar_sub, v), Res(r.ok)))

StoreAddRelation ==
    /\ calls < MaxStoreCalls
    /\ \E u \in StoreVars, v \in StoreVars :
          LET r == AddRelation(tvar_sub, u, v)
          IN  StoreStep(r.c, Call("add_relation", u, v, NoBound, BoundOf(tvar_sub, u),
                                  Res(r.ok)))

StoreGetBound ==
    /\ calls < MaxStoreCalls
    /\ \E v \in StoreVars :
          LET r == GetBound(tvar_sub, v)
          IN  StoreStep(r.c, Call("get_bound", v, -1, r.bound, r.bound, "ok"))

NextStore == StoreAddBound \/ StoreAddRelation \/ StoreGetBound

SpecStore == Init /\ [][NextStore]_vars

\* C5 (as stated): add_relation(u, v) on two different classes fails iff both
\* representatives held non-trivial unequal bounds; on success the classes are
\* one and a non-trivial bound either representative held is the bound of the
\* merged class.
C5_Claim ==
    [][(calls' = calls + 1 /\ last'.op = "add_relation"
            /\ FindRoot(tvar_sub, last'.a) # FindRoot(tvar_sub, last'.b)) =>
        LET lb == BoundOf(tvar_sub, last'.a)
            rb == BoundOf(tvar_sub, last'.b)
        IN  /\ last'.res = "err" <=>
                  (~IsBoundTrivial(lb) /\ ~IsBoundTrivial(rb) /\ ~OptEq(lb, rb))
            /\ last'.res = "ok" =>
                  /\ FindRoot(tvar_sub', last'.a) = FindRoot(tvar_sub', last'.b)
                  /\ ~IsBoundTrivial(lb) => BoundOf(tvar_sub', last'.a) = lb
                  /\ ~IsBoundTrivial(rb) => BoundOf(tvar_sub', last'.a) = rb]_vars

\* the elements of store c that are not the root of their class
NonRoots(c) == {i \in DOMAIN c : c[i].present /\ c[i].parent # i}

\* C6: in each of the three stores every element that is not the root of its
\* class has no stored bound, after successful and failing calls alike.
C6_BoundsOnRoots ==
    \A c \in {tvar_sub, tvar_sup, tvar_eq} :
        \A i \in NonRoots(c) : c[i].bound = NoBound

\* C6 witness: a class of two or more elements with a non-trivial bound, reached
\* through a failing call
C6_Witness ==
    /\ last.res = "err"
    /\ \E i \in NonRoots(tvar_sub) : ~IsBoundTrivial(BoundOf(tvar_sub, i))

\* ------------------------------------------------------------------- marks

RECURSIVE AssertMarkTrue(_, _), AssertMarkFalse(_, _)

\* MarkDeps::assert_true that checks the types and forgets the follower
DepsAssertTrue_NoFollow(mi, deps) ==
    IF deps.eq_types.some
          /\ \E k \in DOMAIN deps.eq_types.others :
                ~EqType(deps.eq_types.base, deps.eq_types.others[k])
    THEN MarkRes(mi, "err")
    ELSE MarkRes(mi, "ok")

\* MarkDeps::assert_true
DepsAssertTrue(mi, deps) ==
    IF deps.eq_types.some
          /\ \E k \in DOMAIN deps.eq_types.others :
                ~EqType(deps.eq_types.base, deps.eq_types.others[k])
    THEN MarkRes(mi, "err")
    ELSE IF deps.follows # NoMark THEN AssertMarkTrue(mi, deps.follows)
    ELSE MarkRes(mi, "ok")

\* MarkDeps::assert_false
DepsAssertFalse(mi, deps) ==
    IF deps.precedes # NoMark THEN AssertMarkFalse(mi, deps.precedes)
    ELSE MarkRes(mi, "ok")

\* MarkValue::assert_true that accepts a mark known to be false
ValueAssertTrue_AcceptingFalse(mi, value) ==
    IF value.k = "Invalid" THEN MarkRes(mi, "self-recursive mark resolution")
    ELSE IF value.k \in {"True", "False"} THEN MarkRes(mi, "ok")
    ELSE IF ~value.some THEN MarkRes(mi, "ok")
    ELSE DepsAssertTrue(mi, value.deps)

\* MarkValue::assert_true
ValueAssertTrue(mi, value) ==
    IF value.k = "Invalid" THEN MarkRes(mi, "self-recursive mark resolution")
    ELSE IF value.k = "True" THEN MarkRes(mi, "ok")
    ELSE IF value.k = "False" THEN MarkRes(mi, "err")
    ELSE IF ~value.some THEN MarkRes(mi, "ok")
    ELSE DepsAssertTrue(mi, value.deps)

\* MarkValue::assert_false
ValueAssertFalse(mi, value) ==
    IF value.k = "Invalid" THEN MarkRes(mi, "self-recursive mark resolution")
    ELSE IF value.k = "True" THEN MarkRes(mi, "err")
    ELSE IF value.k = "False" THEN MarkRes(mi, "ok")
    ELSE IF ~value.some THEN MarkRes(mi, "ok")
    ELSE DepsAssertFalse(mi, value.deps)

\* Context::assert_mark_true
AssertMarkTrue(mi, mark) ==
    LET mark_ == FindRoot(mi, mark)
        m1    == Ensure(FindMap(mi, mark), mark_, CreateMark(mark_, 0))
    IN  ValueAssertTrue([m1 EXCEPT ![mark_].value = V_True], m1[mark_].value)

\* Context::assert_mark_false
AssertMarkFalse(mi, mark) ==
    LET mark_ == FindRoot(mi, mark)
        m1    == Ensure(FindMap(mi, mark), mark_, CreateMark(mark_, 0))
    IN  ValueAssertFalse([m1 EXCEPT ![mark_].value = V_False], m1[mark_].value)

\* take_value inside assert_mark_eq
TakeValue(mi, i) ==
    IF mi[i].present
    THEN [mi |-> [mi EXCEPT ![i].value = V_Invalid], value |-> mi[i].value]
    ELSE [mi |-> mi, value |-> V_Unknown]

\* MarkDeps::merge: the merged dependencies, or Err, or the panic
MergeDeps(l, r) ==
    LET le == l.eq_types
        re == r.eq_types
        eq_types == IF ~le.some THEN re
                    ELSE IF ~re.some THEN le
                    ELSE EqTypes(le.base, le.others \o re.others)
        merged == MarkDeps(IF l.follows = NoMark THEN r.follows ELSE l.follows,
                           IF l.precedes = NoMark THEN r.precedes ELSE l.precedes,
                           eq_types)
    IN  IF le.some /\ re.some /\ ~EqType(le.base, re.base)
        THEN [res |-> "err", deps |-> merged]
        ELSE IF l.follows # NoMark /\ r.follows # NoMark
        THEN [res |-> "non-linear deps detected", deps |-> merged]
        ELSE IF l.precedes # NoMark /\ r.precedes # NoMark
        THEN [res |-> "non-linear deps detected", deps |-> merged]
        ELSE [res |-> "ok", deps |-> merged]

\* assert_mark_eq, "update dependencies for other marks": the edge `field` of
\* mark m, which must point to lhs_ or rhs_, is redirected to new
RedirectEdge(mi, m, field, lhs_, rhs_, new) ==
    IF ~mi[m].present THEN MarkRes(mi, "unwrap on None")
    ELSE IF mi[m].value.k = "Unknown" /\ mi[m].value.some
    THEN IF mi[m].value.deps[field] \in {lhs_, rhs_}
         THEN MarkRes([mi EXCEPT ![m].value.deps[field] = new], "ok")
         ELSE MarkRes(mi, "assertion failed")
    ELSE MarkRes(mi, "desynchronized dependency implication")

\* assert_mark_eq, the arm merging two Unknown(Some(deps)) values
MergeUnknowns(mi, ldeps, rdeps, lhs_, rhs_, new) ==
    LET l == [ldeps EXCEPT !.follows  = IF @ = rhs_ THEN NoMark ELSE @,
                           !.precedes = IF @ = rhs_ THEN NoMark ELSE @]
        r == [rdeps EXCEPT !.follows  = IF @ = lhs_ THEN NoMark ELSE @,
                           !.precedes = IF @ = lhs_ THEN NoMark ELSE @]
        mg == MergeDeps(l, r)
        s1 == IF mg.deps.follows # NoMark
              THEN RedirectEdge(mi, mg.deps.follows, "precedes", lhs_, rhs_, new)
              ELSE MarkRes(mi, "ok")
        s2 == IF mg.deps.precedes # NoMark
              THEN RedirectEdge(s1.mi, mg.deps.precedes, "follows", lhs_, rhs_, new)
              ELSE MarkRes(s1.mi, "ok")
    IN  IF mg.res # "ok" THEN MarkRes(mi, mg.res)
        ELSE IF s1.res # "ok" THEN s1
        ELSE IF s2.res # "ok" THEN s2
        ELSE MarkRes([s2.mi EXCEPT ![new].value = V_Deps(mg.deps)], "ok")

\* assert_mark_eq after the early checks: both values taken, classes united, and
\* the merged value written unless an error or a panic cut the call short
MergeValues(mi0, lhs_, rhs_) ==
    LET tl == TakeValue(mi0, lhs_)
        tr == TakeValue(tl.mi, rhs_)
        lv == tl.value
        rv == tr.value
        u  == UnionWith(tr.mi, lhs_, rhs_, CreateMark(lhs_, 0), CreateMark(rhs_, 0))
        mi == u.map
        new == u.new
        known == IF lv.k = "Unknown" THEN rv ELSE lv
        deps  == IF lv.k = "Unknown" THEN lv ELSE rv
    IN  IF lv.k = "Unknown" /\ rv.k = "Unknown"
        THEN IF ~lv.some /\ ~rv.some
             THEN MarkRes([mi EXCEPT ![new].value = V_Unknown], "ok")
             ELSE IF ~lv.some THEN MarkRes([mi EXCEPT ![new].value = rv], "ok")
             ELSE IF ~rv.some THEN MarkRes([mi EXCEPT ![new].value = lv], "ok")
             ELSE MergeUnknowns(mi, lv.deps, rv.deps, lhs_, rhs_, new)
        ELSE IF known.k = "True" /\ deps.k = "Unknown"
        THEN LET r == IF deps.some THEN DepsAssertTrue(mi, deps.deps)
                      ELSE MarkRes(mi, "ok")
             IN  IF r.res # "ok" THEN r
                 ELSE MarkRes([r.mi EXCEPT ![new].value = V_True], "ok")
        ELSE IF known.k = "False" /\ deps.k = "Unknown"
        THEN LET r == IF deps.some THEN DepsAssertFalse(mi, deps.deps)
                      ELSE MarkRes(mi, "ok")
             IN  IF r.res # "ok" THEN r
                 ELSE MarkRes([r.mi EXCEPT ![new].value = V_False], "ok")
        ELSE MarkRes(mi, "unreachable")

\* Context::assert_mark_eq
AssertMarkEq(mi, lhs, rhs) ==
    IF lhs = rhs THEN MarkRes(mi, "ok")
    ELSE
    LET lhs_ == FindRoot(mi, lhs)
        m1   == FindMap(mi, lhs)
        rhs_ == FindRoot(m1, rhs)
        m2   == FindMap(m1, rhs)
        lk   == IF m2[lhs_].present THEN m2[lhs_].value.k ELSE "None"
        rk   == IF m2[rhs_].present THEN m2[rhs_].value.k ELSE "None"
    IN  IF lhs_ = rhs_ THEN MarkRes(m2, "ok")
        ELSE IF lk = "Invalid" \/ rk = "Invalid"
        THEN MarkRes(m2, "self-recursive mark resolution")
        ELSE IF lk = "True" /\ rk = "True" THEN MarkRes(m2, "ok")
        ELSE IF lk = "True" /\ rk = "False" THEN MarkRes(m2, "err")
        ELSE IF lk = "False" /\ rk = "True" THEN MarkRes(m2, "err")
        ELSE IF lk = "False" /\ rk = "False" THEN MarkRes(m2, "ok")
        ELSE MergeValues(m2, lhs_, rhs_)

\* get_deps_mut inside assert_mark_imply: the entry of i with its deps made Some
GetDepsMut(mi, i) ==
    LET m == Ensure(mi, i, CreateMark(i, 0))
    IN  IF m[i].value.k # "Unknown" THEN MarkRes(m, "unreachable")
        ELSE IF m[i].value.some THEN MarkRes(m, "ok")
        ELSE MarkRes([m EXCEPT ![i].value = V_Deps(NewMarkDeps)], "ok")

\* take_deps inside assert_mark_imply: the value of i replaced by repl
TakeDeps(mi, i, repl) ==
    LET m == Ensure(mi, i, CreateMark(i, 0))
    IN  [mi |-> [m EXCEPT ![i].value = repl], value |-> m[i].value,
         res |-> IF m[i].value.k = "Unknown" THEN "ok" ELSE "unreachable"]

\* assert_mark_imply, Next::AddDeps: the edge lhs_ -> rhs_ recorded on both ends
AddDeps(mi, lhs_, rhs_) ==
    LET g1 == GetDepsMut(mi, lhs_)
        f  == g1.mi[lhs_].value.deps.follows
        m1 == IF f = NoMark THEN [g1.mi EXCEPT ![lhs_].value.deps.follows = rhs_]
              ELSE g1.mi
        g2 == GetDepsMut(m1, rhs_)
        p  == g2.mi[rhs_].value.deps.precedes
        m2 == IF p = NoMark THEN [g2.mi EXCEPT ![rhs_].value.deps.precedes = lhs_]
              ELSE g2.mi
    IN  IF g1.res # "ok" THEN g1
        ELSE IF f # NoMark /\ f # rhs_ THEN MarkRes(g1.mi, "non-linear deps detected")
        ELSE IF g2.res # "ok" THEN g2
        ELSE IF p # NoMark /\ p # lhs_ THEN MarkRes(g2.mi, "non-linear deps detected")
        ELSE MarkRes(m2, "ok")

\* Context::assert_mark_imply
AssertMarkImply(mi, lhs, rhs) ==
    IF lhs = rhs THEN MarkRes(mi, "ok")
    ELSE
    LET lhs_ == FindRoot(mi, lhs)
        m1   == FindMap(mi, lhs)
        rhs_ == FindRoot(m1, rhs)
        m2   == FindMap(m1, rhs)
        lk   == IF m2[lhs_].present THEN m2[lhs_].value.k ELSE "None"
        rk   == IF m2[rhs_].present THEN m2[rhs_].value.k ELSE "None"
    IN  IF lhs_ = rhs_ THEN MarkRes(m2, "ok")
        ELSE IF lk = "Invalid" \/ rk = "Invalid"
        THEN MarkRes(m2, "self-recursive mark resolution")
        ELSE IF lk = "True" /\ rk = "True" THEN MarkRes(m2, "ok")
        ELSE IF lk = "True" /\ rk = "False" THEN MarkRes(m2, "err")
        ELSE IF lk = "True"
        THEN LET t == TakeDeps(m2, rhs_, V_True)
             IN  IF t.res # "ok" THEN MarkRes(t.mi, t.res)
                 ELSE IF t.value.some THEN DepsAssertTrue(t.mi, t.value.deps)
                 ELSE MarkRes(t.mi, "ok")
        ELSE IF lk = "False" THEN MarkRes(m2, "ok")
        ELSE IF rk = "True" THEN MarkRes(m2, "ok")
        ELSE IF rk = "False"
        THEN LET t == TakeDeps(m2, lhs_, V_False)
             IN  IF t.res # "ok" THEN MarkRes(t.mi, t.res)
                 ELSE IF t.value.some THEN DepsAssertFalse(t.mi, t.value.deps)
                 ELSE MarkRes(t.mi, "ok")
        ELSE AddDeps(m2, lhs_, rhs_)

\* assert_mark_require that records the types whatever base was recorded before
AssertMarkRequire_AnyBase(mi, mark, base, ty) ==
    LET mark_ == FindRoot(mi, mark)
        m1    == Ensure(FindMap(mi, mark), mark_, CreateMark(mark_, 0))
        value == m1[mark_].value
        deps  == IF value.some THEN value.deps ELSE NewMarkDeps
        et    == deps.eq_types
    IN  IF value.k = "Invalid"
        THEN MarkRes([m1 EXCEPT ![mark_].value = V_Invalid],
                     "self-recursive mark resolution")
        ELSE IF value.k = "True"
        THEN MarkRes(m1, IF EqType(base, ty) THEN "ok" ELSE "err")
        ELSE IF value.k = "False" THEN MarkRes(m1, "ok")
        ELSE IF et.some
        THEN MarkRes([m1 EXCEPT ![mark_].value =
                          V_Deps([deps EXCEPT !.eq_types.others = Append(@, ty)])],
                     "ok")
        ELSE MarkRes([m1 EXCEPT ![mark_].value =
                          V_Deps([deps EXCEPT !.eq_types = EqTypes(base, <<ty>>)])],
                     "ok")

\* Context::assert_mark_require on ground types
AssertMarkRequire(mi, mark, base, ty) ==
    LET mark_ == FindRoot(mi, mark)
        m1    == Ensure(FindMap(mi, mark), mark_, CreateMark(mark_, 0))
        value == m1[mark_].value
        deps  == IF value.some THEN value.deps ELSE NewMarkDeps
        et    == deps.eq_types
    IN  IF value.k = "Invalid"
        THEN MarkRes([m1 EXCEPT ![mark_].value = V_Invalid],
                     "self-recursive mark resolution")
        ELSE IF value.k = "True"
        THEN MarkRes(m1, IF EqType(base, ty) THEN "ok" ELSE "err")
        ELSE IF value.k = "False" THEN MarkRes(m1, "ok")
        ELSE IF et.some
        THEN IF ~EqType(base, et.base) THEN MarkRes(m1, "err")
             ELSE MarkRes([m1 EXCEPT ![mark_].value =
                                V_Deps([deps EXCEPT !.eq_types.others = Append(@, ty)])],
                          "ok")
        ELSE MarkRes([m1 EXCEPT ![mark_].value =
                          V_Deps([deps EXCEPT !.eq_types = EqTypes(base, <<ty>>)])],
                     "ok")

\* ---------------------------------------------------------------- mark steps

\* the types the callers of SpecMark pass to assert_mark_require
ReqTypes == {T_Integer, T_String}

\* the marks handed out so far
LiveMarks == 0 .. (next_mark - 1)

\* the value of the class of mark m, Unknown(None) while it has no entry
ValueOf(mi, m) ==
    LET root == FindRoot(mi, m)
    IN  IF mi[root].present THEN mi[root].value ELSE V_Unknown

\* Invalid, True, False or Unknown
KindOf(mi, m) == ValueOf(mi, m).k

\* the record kept in `last` by a mark step: the method, its marks a and b, its
\* types t (base) and u, the kinds of a and b before the call, and the result
MarkCall(op, a, b, t, u, res) ==
    [op |-> op, a |-> a, b |-> b, t |-> t, u |-> u,
     pre |-> IF a = NoMark THEN "Unknown" ELSE KindOf(mark_infos, a),
     pre2 |-> IF b = NoMark THEN "Unknown" ELSE KindOf(mark_infos, b),
     res |-> res]

\* a panic ends the program
Panicked == last.res \in Panics

\* the classes that the recorded implication edges lead to from the class of m
FollowersOf(mi, edges, m) ==
    {FindRoot(mi, e[2]) : e \in {x \in edges : FindRoot(mi, x[1]) = FindRoot(mi, m)}}
        \ {FindRoot(mi, m)}

\* the classes that the recorded implication edges lead from to the class of m
PredecessorsOf(mi, edges, m) ==
    {FindRoot(mi, e[1]) : e \in {x \in edges : FindRoot(mi, x[2]) = FindRoot(mi, m)}}
        \ {FindRoot(mi, m)}

\* no class has two different followers or two different predecessors
Linear(mi, edges) ==
    \A m \in Marks : /\ Cardinality(FollowersOf(mi, edges, m)) <= 1
                     /\ Cardinality(PredecessorsOf(mi, edges, m)) <= 1

\* Context::gen_mark
GenMark ==
    /\ calls < MaxMarkCalls
    /\ ~Panicked
    /\ next_mark' = next_mark + 1
    /\ calls' = calls + 1
    /\ UNCHANGED <<next_tvar, tvar_sub, tvar_sup, tvar_eq, mark_infos, last, hist, checkVars>>

\* the part of a mark step common to all methods; edge is the implication the
\* call asks for, if any
MarkStep(r, call, edge) ==
    /\ mark_infos' = r.mi
    /\ calls' = calls + 1
    /\ last' = call
    /\ hist' = [hist EXCEPT
          !.all_ok = @ /\ r.res = "ok",
          !.implied = IF r.res = "ok" THEN @ \cup edge ELSE @,
          !.edges = @ \cup {e \in edge : e[1] # e[2]},
          !.linear = @ /\ Linear(r.mi, hist.edges \cup {e \in edge : e[1] # e[2]})]
    /\ UNCHANGED <<next_tvar, tvar_sub, tvar_sup, tvar_eq, next_mark, checkVars>>

CallAssertMarkTrue ==
    /\ calls < MaxMarkCalls
    /\ ~Panicked
    /\ \E m \in LiveMarks :
           LET r == AssertMarkTrue(mark_infos, m)
           IN  MarkStep(r, MarkCall("assert_mark_true", m, NoMark, NoBound, NoBound, r.res), {})

CallAssertMarkFalse ==
    /\ calls < MaxMarkCalls
    /\ ~Panicked
    /\ \E m \in LiveMarks :
           LET r == AssertMarkFalse(mark_infos, m)
           IN  MarkStep(r, MarkCall("assert_mark_false", m, NoMark, NoBound, NoBound, r.res), {})

CallAssertMarkEq ==
    /\ calls < MaxMarkCalls
    /\ ~Panicked
    /\ \E m \in LiveMarks, n \in LiveMarks :
           LET r == AssertMarkEq(mark_infos, m, n)
           IN  MarkStep(r, MarkCall("assert_mark_eq", m, n, NoBound, NoBound, r.res), {})

CallAssertMarkImply ==
    /\ calls < MaxMarkCalls
    /\ ~Panicked
    /\ \E m \in LiveMarks, n \in LiveMarks :
           LET r == AssertMarkImply(mark_infos, m, n)
           IN  MarkStep(r, MarkCall("assert_mark_imply", m, n, NoBound, NoBound, r.res),
                        {<<m, n>>})

CallAssertMarkRequire ==
    /\ calls < MaxMarkCalls
    /\ ~Panicked
    /\ \E m \in LiveMarks, base \in ReqTypes, ty \in ReqTypes :
           LET r == AssertMarkRequire(mark_infos, m, base, ty)
           IN  MarkStep(r, MarkCall("assert_mark_require", m, NoMark, base, ty, r.res), {})

\* the callers of the mark solver: any method on any live marks
NextMark ==
    \/ GenMark
    \/ CallAssertMarkTrue
    \/ CallAssertMarkFalse
    \/ CallAssertMarkEq
    \/ CallAssertMarkImply
    \/ CallAssertMarkRequire

SpecMark == Init /\ [][NextMark]_vars

\* ------------------------------------------------ properties of the marks

\* C7: an implication recorded by a successful assert_mark_imply(m, n) is
\* honoured in every state reached through successful calls: a successful
\* assert_mark_true leaves its mark True and assert_mark_false leaves it False,
\* m True makes n True, and n False makes m False, also when the marks were
\* merged with others by assert_mark_eq.
C7_ImplicationsHonoured ==
    hist.all_ok =>
        /\ last.op = "assert_mark_true" => KindOf(mark_infos, last.a) = "True"
        /\ last.op = "assert_mark_false" => KindOf(mark_infos, last.a) = "False"
        /\ \A e \in hist.implied :
              /\ KindOf(mark_infos, e[1]) = "True" => KindOf(mark_infos, e[2]) = "True"
              /\ KindOf(mark_infos, e[2]) = "False" => KindOf(mark_infos, e[1]) = "False"

\* C7 witness: m => n was recorded, m was merged with a third mark, and
\* assert_mark_true on that mark has made n True
C7_Witness ==
    /\ hist.all_ok
    /\ last.op = "assert_mark_true" /\ last.pre = "Unknown"
    /\ \E e \in hist.implied :
          /\ last.a \notin {e[1], e[2]}
          /\ FindRoot(mark_infos, last.a) = FindRoot(mark_infos, e[1])
          /\ FindRoot(mark_infos, e[2]) # FindRoot(mark_infos, e[1])
          /\ KindOf(mark_infos, e[2]) = "True"

\* C8: a mark conflict is an error: assert_mark_true on a mark known False,
\* assert_mark_false on a mark known True, assert_mark_eq on marks known to have
\* opposite values and assert_mark_imply(m, n) with m True and n False return
\* Err; assert_mark_eq on marks with the same known value returns Ok.
C8_ConflictsReported ==
    /\ (last.op = "assert_mark_true" /\ last.pre = "False") => last.res = "err"
    /\ (last.op = "assert_mark_false" /\ last.pre = "True") => last.res = "err"
    /\ (last.op = "assert_mark_eq" /\ {last.pre, last.pre2} = {"True", "False"})
          => last.res = "err"
    /\ (last.op = "assert_mark_eq" /\ last.pre = last.pre2
            /\ last.pre \in {"True", "False"}) => last.res = "ok"
    /\ (last.op = "assert_mark_imply" /\ last.pre = "True" /\ last.pre2 = "False")
          => last.res = "err"

\* C8 witness: assert_mark_eq on a True and a False mark has returned Err
C8_Witness ==
    /\ last.op = "assert_mark_eq" /\ last.res = "err"
    /\ last.pre = "True" /\ last.pre2 = "False"

\* a step that is an assert_mark_* call
IsMarkCall == calls' = calls + 1 /\ next_mark' = next_mark

\* the requirements recorded for the class of m hold a type unequal to the base
Mismatch(mi, m) ==
    LET v == ValueOf(mi, m)
    IN  /\ v.k = "Unknown" /\ v.some /\ v.deps.eq_types.some
        /\ \E k \in DOMAIN v.deps.eq_types.others :
              ~EqType(v.deps.eq_types.base, v.deps.eq_types.others[k])

\* C9 apart from the call on an Unknown mark: recorded types are compared when
\* the mark becomes True, a mismatch failing that call; they are not compared
\* when it becomes False; on a True mark assert_mark_require compares base and
\* t at once, and on a False mark it changes nothing.
C9_Rest ==
    /\ \A m \in Marks :
          (Mismatch(mark_infos, m) /\ KindOf(mark_infos', m) = "True")
              => last'.res = "err"
    /\ (last'.op = "assert_mark_eq"
            /\ \/ last'.pre = "True" /\ Mismatch(mark_infos, last'.b)
               \/ last'.pre2 = "True" /\ Mismatch(mark_infos, last'.a))
          => last'.res = "err"
    /\ (last'.op = "assert_mark_false" /\ last'.pre = "Unknown"
            /\ ValueOf(mark_infos, last'.a).deps.precedes = NoMark)
          => (last'.res = "ok" /\ KindOf(mark_infos', last'.a) = "False")
    /\ (last'.op = "assert_mark_require" /\ last'.pre = "True")
          => (last'.res = "ok" <=> EqType(last'.t, last'.u))
    /\ (last'.op = "assert_mark_require" /\ last'.pre = "False")
          => /\ last'.res = "ok"
             /\ \A m \in Marks : ValueOf(mark_infos', m) = ValueOf(mark_infos, m)

\* C9 (original statement): while m is Unknown assert_mark_require(m, base, t)
\* succeeds without comparing base and t; the recorded types are compared when m
\* becomes True and never when it becomes False; on a True mark base = t is
\* asserted at once and on a False mark the call is a no-op.
C9_Original ==
    [][IsMarkCall =>
        /\ (last'.op = "assert_mark_require" /\ last'.pre = "Unknown")
              => last'.res = "ok"
        /\ C9_Rest]_vars

\* C9 (amended): while m is Unknown assert_mark_require(m, base, t) does not
\* compare base and t; it succeeds, recording t, iff m has no recorded
\* requirement yet or base equals the base recorded first, and otherwise fails
\* and records nothing; the rest as in the original statement, the recorded
\* types being compared with the base recorded first.
C9_Amended ==
    [][IsMarkCall =>
        /\ (last'.op = "assert_mark_require" /\ last'.pre = "Unknown") =>
              LET old == ValueOf(mark_infos, last'.a).deps.eq_types
                  new == ValueOf(mark_infos', last'.a).deps.eq_types
              IN  IF old.some /\ ~EqType(last'.t, old.base)
                  THEN last'.res = "err" /\ new = old
                  ELSE /\ last'.res = "ok"
                       /\ new = EqTypes(IF old.some THEN old.base ELSE last'.t,
                                        Append(old.others, last'.u))
        /\ C9_Rest]_vars

\* C9 witness: a requirement on an Unknown mark was refused because its base
\* differs from the base recorded before
C9_Witness ==
    /\ last.op = "assert_mark_require" /\ last.pre = "Unknown" /\ last.res = "err"
    /\ ValueOf(mark_infos, last.a).deps.eq_types.some
    /\ ~EqType(last.t, ValueOf(mark_infos, last.a).deps.eq_types.base)

\* C10 (as stated): no sequence of mark calls that respects linearity reaches
\* a panic, also when an earlier call has returned an error.
C10_NoPanic == hist.linear => last.res \notin Panics

\* C11 (as stated): whenever a mark operation has returned, with Ok or with
\* Err, no class of marks has the value Invalid at its representative.
C11_InvalidMomentary ==
    last.res \in {"ok", "err"} =>
        \A m \in Marks : KindOf(mark_infos, m) # "Invalid"

\* the marks of the class of m
ClassOf(mi, m) == {x \in Marks : FindRoot(mi, x) = FindRoot(mi, m)}

\* the edges (follows and precedes) held by the representative of the class of m
EdgesOf(mi, m) ==
    LET v == ValueOf(mi, m)
    IN  IF v.k = "Unknown" /\ v.some
        THEN {v.deps.follows, v.deps.precedes} \ {NoMark}
        ELSE {}

\* C12 (as stated): after assert_mark_eq(m, n) has merged two Unknown marks,
\* the merged class holds no edge to one of its own marks, and every edge of
\* another mark that referred to the representative of m or of n refers to
\* the new representative.
C12_EdgesRewritten ==
    [][(IsMarkCall /\ last'.op = "assert_mark_eq" /\ last'.res = "ok"
            /\ last'.pre = "Unknown" /\ last'.pre2 = "Unknown"
            /\ FindRoot(mark_infos, last'.a) # FindRoot(mark_infos, last'.b)) =>
        LET olds == {FindRoot(mark_infos, last'.a), FindRoot(mark_infos, last'.b)}
            new  == FindRoot(mark_infos', last'.a)
        IN  /\ EdgesOf(mark_infos', new) \cap ClassOf(mark_infos', new) = {}
            /\ \A x \in Marks \ ClassOf(mark_infos', new) :
                  \A field \in {"follows", "precedes"} :
                      (ValueOf(mark_infos, x).deps[field] \in olds)
                          => ValueOf(mark_infos', x).deps[field] = new]_vars

\* ------------------------------------------------- Env (env.rs, check.rs)

\* Flags of Union::from(ty).flags() for the types of check.rs
Flags(ty) ==
    CASE ty = T_Dynamic  -> {"dynamic"}
      [] ty = T_Nil      -> {"nil"}
      [] ty = T_Boolean  -> {"true", "false"}
      [] ty = T_Number   -> {"noninteger", "integer"}
      [] ty = T_String   -> {"string"}
      [] ty = T_Table    -> {"table"}
      [] ty = T_Function -> {"function"}
      [] OTHER           -> {}

\* accept: flags & rhsflags == rhsflags (none of the types here is a set of literals)
Accept(ty, rhs) == Flags(rhs) \subseteq Flags(ty)

\* the scope the loop of get_local_var / get_local_var_mut stops at: the
\* innermost scope of the current Env, from scope i down, that holds an entry
\* for name; 0 when none does.  The scopes below the first scope of an Env
\* belong to the Env of the requiring module and are not looked at.
RECURSIVE LocalScopeOf(_, _, _)
LocalScopeOf(s, i, name) ==
    IF i = 0 THEN 0
    ELSE IF s[i].names[name] # NoInfo THEN i
    ELSE IF s[i].kind = "env" THEN 0
    ELSE LocalScopeOf(s, i - 1, name)

\* Env::get_local_var
GetLocalVar(s, name) ==
    LET i == LocalScopeOf(s, Len(s), name)
    IN  IF i = 0 \/ s[i].names[name] = Removed THEN NoInfo ELSE s[i].names[name]

\* Env::get_var that looks at the global scope first
GetVar_GlobalFirst(s, g, name) ==
    IF g[name] # NoInfo THEN g[name] ELSE GetLocalVar(s, name)

\* Env::get_var
GetVar(s, g, name) ==
    IF GetLocalVar(s, name) # NoInfo THEN GetLocalVar(s, name) ELSE g[name]

\* Env::add_local_var
AddLocalVar(s, name, info) == [s EXCEPT ![Len(s)] = Put(@, name, info)]

\* result of a method of Env: the scopes, the global scope and Ok or Err
EnvRes(s, g, ok) == [scopes |-> s, globals |-> g, ok |-> ok]

\* Env::assign_to_var that binds the global name whatever the locals are
AssignToVar_AlwaysGlobal(s, g, name, info) ==
    EnvRes(s, [g EXCEPT ![name] = info], TRUE)

\* Env::assign_to_var that binds an unbound name in the current scope
AssignToVar_InCurrentScope(s, g, name, info) ==
    LET i == LocalScopeOf(s, Len(s), name)
    IN  IF i # 0
        THEN EnvRes(s, g, Accept(s[i].names[name].ty, info.ty))
        ELSE EnvRes(AddLocalVar(s, name, info), g, TRUE)

\* Env::assign_to_var
AssignToVar(s, g, name, info) ==
    LET i == LocalScopeOf(s, Len(s), name)
    IN  IF i # 0
        THEN EnvRes(s, g, Accept(s[i].names[name].ty, info.ty))
        ELSE EnvRes(s, [g EXCEPT ![name] = info], TRUE)

\* Env::assume_var that installs the new binding in the current scope
AssumeVar_InCurrentScope(s, g, name, info) ==
    EnvRes(AddLocalVar(s, name, info), g, TRUE)

\* Env::assume_var
AssumeVar(s, g, name, info) ==
    LET i == LocalScopeOf(s, Len(s), name)
    IN  IF i # 0
        THEN EnvRes([s EXCEPT ![i] = Put(@, name, info)], g, TRUE)
        ELSE EnvRes(s, [g EXCEPT ![name] = info], TRUE)

\* Env::remove_local_var: the name is no longer bound in the Env it is called on
RemoveLocalVar(s, name) == [s EXCEPT ![Len(s)] = Put(@, name, Removed)]

\* Env::make_subenv: a child Env, one more scope on top of its parent's
MakeSubenv(s, kind, left) == Append(s, NewScope(kind, left))

\* Env::make_module: an Env of its own over the same global scope
MakeModule(s) == Append(s, NewScope("env", 0))

\* ------------------------------------------------------ Checker (check.rs)

\* statements a block may hold beyond the one being visited
MaxBlockLen == 2
\* number of steps of Checker::visit in one behaviour of SpecCheck
MaxCheckSteps == 4

\* enum E: the expression, the name of a variable, a string literal, the arguments
Exp(e, name, str, args) == [e |-> e, name |-> name, str |-> str, args |-> args]
E_Nil      == Exp("Nil", "", "", <<>>)
E_Num      == Exp("Num", "", "", <<>>)
E_Str(v)   == Exp("Str", "", v, <<>>)
E_Table    == Exp("Table", "", "", <<>>)
E_Func     == Exp("Func", "", "", <<>>)
E_Varargs  == Exp("Varargs", "", "", <<>>)
E_Var(n)   == Exp("Var", n, "", <<>>)
E_FuncCall(n, args) == Exp("FuncCall", n, "", args)

\* CheckResult<TyInfo>
ExpRes(ok, info) == [ok |-> ok, info |-> info]

\* Checker::visit_exp on an expression without a call; `function() end` is the
\* only E::Func, and visiting its empty body leaves nothing behind
VisitSimple(s, g, exp) ==
    CASE exp.e = "Nil"     -> ExpRes(TRUE, NewTyInfo(T_Nil))
      [] exp.e = "Num"     -> ExpRes(TRUE, NewTyInfo(T_Number))
      [] exp.e = "Str"     -> ExpRes(TRUE, NewTyInfo(T_String))
      [] exp.e = "Table"   -> ExpRes(TRUE, NewTyInfo(T_Table))
      [] exp.e = "Func"    -> ExpRes(TRUE, NewTyInfo(T_Function))
      [] exp.e = "Varargs" -> ExpRes(GetVar(s, g, Vararg) # NoInfo, GetVar(s, g, Vararg))
      [] exp.e = "Var"     -> ExpRes(GetVar(s, g, exp.name) # NoInfo, GetVar(s, g, exp.name))

\* the part of visit_exp for E::FuncCall before the builtin is looked at: the
\* callee is visited and must be a function or dynamic, then every argument is
\* visited
CalleeAndArgsOk(s, g, exp) ==
    LET funcinfo == VisitSimple(s, g, E_Var(exp.name))
    IN  /\ funcinfo.ok
        /\ funcinfo.info.ty \in {T_Function, T_Dynamic}
        /\ \A i \in 1 .. Len(exp.args) : VisitSimple(s, g, exp.args[i]).ok

\* the guard of the require arm that follows every call carrying the builtin
IsRequire_AnyArgument(s, g, exp) ==
    /\ GetVar(s, g, exp.name).builtin = "Require"
    /\ Len(exp.args) >= 1

\* the guard of the arm `Some(Builtin::Require) if args.len() >= 1` and of the
\* `if let E::Str(ref path) = *args[0]` inside it
IsRequire(s, g, exp) ==
    /\ GetVar(s, g, exp.name).builtin = "Require"
    /\ Len(exp.args) >= 1
    /\ exp.args[1].e = "Str"

\* the record kept in `last` for a step of the checker: the statement, the name
\* it binds, its expression, the path handed to Options::require_block and
\* what it returned ("" and "none" when it was not called), and the result of
\* the statement
LoadCall(op, name, exp, path, loader, res) ==
    [op |-> op, name |-> name, exp |-> exp, path |-> path, loader |-> loader, res |-> res]

CheckCall(op, name, exp, res) == LoadCall(op, name, exp, "", "none", res)

\* a scope of a required module is on the stack
InModule(s) == \E i \in 2 .. Len(s) : s[i].kind = "env"

\* hist after a statement that returned Ok
Bound(call) ==
    IF call.op = "Local"
    THEN IF InModule(scopes)
         THEN [hist EXCEPT !.mod_locals = @ \cup {call.name}]
         ELSE [hist EXCEPT !.own = @ \cup {call.name}]
    ELSE IF call.op = "Assign"
    THEN IF ~InModule(scopes)
         THEN [hist EXCEPT !.own = @ \cup {call.name}]
         ELSE IF LocalScopeOf(scopes, Len(scopes), call.name) = 0
         THEN [hist EXCEPT !.mod_globals = @ \cup {call.name}]
         ELSE hist
    ELSE hist

RECURSIVE SumLeft(_)
SumLeft(s) == IF s = <<>> THEN 0 ELSE s[Len(s)].left + SumLeft(SubSeq(s, 1, Len(s) - 1))

\* the statement about to be visited is no longer among the ones left
Begin(s) == [s EXCEPT ![Len(s)].left = @ - 1]

\* the Checkers of the scopes dropped when a block has been visited: the one of
\* the block and those made around it by visit_func_body, by a for loop or by
\* a require
RECURSIVE Drop(_)
Drop(s) ==
    IF Len(s) > 1 /\ s[Len(s)].kind # "block"
    THEN Drop(SubSeq(s, 1, Len(s) - 1))
    ELSE s

CheckLive ==
    /\ visit.status = "running"
    /\ calls < MaxCheckSteps
    /\ scopes[Len(scopes)].kind = "block"

\* the block being visited has a statement left to visit
MoreStmts == scopes[Len(scopes)].left > 0

\* a statement returned Ok, or visit_block has gone into the block it holds
Pass(s, g, call) ==
    /\ scopes' = s
    /\ globals' = g
    /\ UNCHANGED lexer
    /\ visit' = [visit EXCEPT !.loads = IF call.loader # "none" THEN @ + 1 ELSE @]
    /\ calls' = calls + 1
    /\ last' = call
    /\ hist' = Bound(call)
    /\ UNCHANGED <<tvarVars, next_mark, mark_infos>>

\* a statement returned Err: try! hands it up through every visit_block and
\* visit_stmt to the caller of Checker::visit
Fail(g, call) ==
    /\ scopes' = <<scopes[1]>>
    /\ globals' = g
    /\ UNCHANGED lexer
    /\ visit' = [visit EXCEPT !.status = "err", !.skipped = SumLeft(Begin(scopes)),
                                !.loads = IF call.loader # "none" THEN @ + 1 ELSE @]
    /\ calls' = calls + 1
    /\ last' = call
    /\ UNCHANGED <<tvarVars, next_mark, mark_infos, hist>>

\* S::Local with one name and one expression
VisitLocal(names, exps) ==
    /\ CheckLive /\ MoreStmts
    /\ \E name \in names, exp \in exps :
          LET info == VisitSimple(scopes, globals, exp)
          IN  IF info.ok
              THEN Pass(AddLocalVar(Begin(scopes), name, info.info), globals,
                        CheckCall("Local", name, exp, "ok"))
              ELSE Fail(globals, CheckCall("Local", name, exp, "err"))

\* S::Assign with one Var::Name and one expression
VisitAssign(names, exps) ==
    /\ CheckLive /\ MoreStmts
    /\ \E name \in names, exp \in exps :
          LET info == VisitSimple(scopes, globals, exp)
              r    == AssignToVar(Begin(scopes), globals, name, info.info)
          IN  IF info.ok /\ r.ok
              THEN Pass(r.scopes, r.globals, CheckCall("Assign", name, exp, "ok"))
              ELSE Fail(globals, CheckCall("Assign", name, exp, "err"))

\* S::Void of an E::FuncCall; Options::require_block returns an error or a
\* block, of which visit_block is then entered in the Env of make_module
VisitVoid(exps) ==
    /\ CheckLive /\ MoreStmts
    /\ \E exp \in exps :
          IF ~CalleeAndArgsOk(scopes, globals, exp)
          THEN Fail(globals, CheckCall("Void", "", exp, "err"))
          ELSE IF IsRequire(scopes, globals, exp)
          THEN \E block \in {-1} \cup (0 .. MaxBlockLen) :
                  IF block = -1
                  THEN Fail(globals, LoadCall("Void", "", exp, exp.args[1].str, "err", "err"))
                  ELSE Pass(MakeSubenv(MakeModule(Begin(scopes)), "block", block), globals,
                            LoadCall("Void", "", exp, exp.args[1].str, "ok", "ok"))
          ELSE Pass(Begin(scopes), globals, CheckCall("Void", "", exp, "ok"))

\* S::KailuaAssume
VisitKailuaAssume(names, infos) ==
    /\ CheckLive /\ MoreStmts
    /\ \E name \in names, info \in infos :
          LET r == AssumeVar(Begin(scopes), globals, name, info)
              call(res) == CheckCall("KailuaAssume", name,
                                     Exp("Kind", "", info.builtin, <<info.ty>>), res)
          IN  IF r.ok
              THEN Pass(r.scopes, r.globals, call("ok"))
              ELSE Fail(globals, call("err"))

\* S::Do: visit_block is entered on a block of some length
VisitDo ==
    /\ CheckLive /\ MoreStmts
    /\ \E block \in 0 .. MaxBlockLen :
          Pass(MakeSubenv(Begin(scopes), "block", block), globals,
               CheckCall("Do", "", E_Nil, "ok"))

\* S::For with literal start and end: the loop variable is bound in a scope
\* of its own around the block
VisitFor ==
    /\ CheckLive /\ MoreStmts
    /\ \E name \in {"q"}, block \in 0 .. MaxBlockLen :
          Pass(MakeSubenv(AddLocalVar(MakeSubenv(Begin(scopes), "for", 0),
                                      name, NewTyInfo(T_Number)),
                          "block", block),
               globals, CheckCall("For", name, E_Nil, "ok"))

\* visit_func_body that leaves the `...` of the enclosing function bound
VisitFuncBody_Inheriting(s, vararg, block) ==
    LET scope == MakeSubenv(s, IF vararg THEN "vararg func" ELSE "func", 0)
        bound == IF vararg THEN AddLocalVar(scope, Vararg, NewTyInfo(T_Dynamic)) ELSE scope
    IN  MakeSubenv(bound, "block", block)

\* visit_func_body without self and without named parameters, up to its visit_block
VisitFuncBody(s, vararg, block) ==
    LET scope == MakeSubenv(s, IF vararg THEN "vararg func" ELSE "func", 0)
        bound == IF vararg THEN AddLocalVar(scope, Vararg, NewTyInfo(T_Dynamic))
                 ELSE IF GetLocalVar(scope, Vararg) # NoInfo
                      THEN RemoveLocalVar(scope, Vararg)
                      ELSE scope
    IN  MakeSubenv(bound, "block", block)

\* S::FuncDecl
VisitFuncDecl ==
    /\ CheckLive /\ MoreStmts
    /\ \E fscope \in {"Local", "Global"}, name \in {"p"}, vararg \in BOOLEAN,
          block \in 0 .. MaxBlockLen :
          LET info == NewTyInfo(T_Dynamic)
              r    == IF fscope = "Local"
                      THEN EnvRes(AddLocalVar(Begin(scopes), name, info), globals, TRUE)
                      ELSE AssignToVar(Begin(scopes), globals, name, info)
              call(res) == CheckCall("FuncDecl", name,
                                     Exp(fscope, "", IF vararg THEN "..." ELSE "", <<>>), res)
          IN  IF r.ok
              THEN Pass(VisitFuncBody(r.scopes, vararg, block), r.globals, call("ok"))
              ELSE Fail(globals, call("err"))

\* the scope of the innermost function whose body is being visited, 0 in the chunk
EnclosingFunc(s) ==
    LET F == {i \in 1 .. Len(s) : s[i].kind \in {"func", "vararg func"}}
    IN  IF F = {} THEN 0 ELSE CHOOSE i \in F : \A j \in F : j <= i

\* the loop of visit_block has no statement left: the block's Checker is
\* dropped and the statement that holds the block returns Ok; Checker::visit
\* returns Ok when the block is the chunk
LeaveBlock ==
    /\ CheckLive /\ ~MoreStmts
    /\ scopes' = Drop(SubSeq(scopes, 1, Len(scopes) - 1))
    /\ UNCHANGED lexer
    /\ visit' = [visit EXCEPT !.status = IF Len(scopes') = 1 THEN "ok" ELSE @]
    /\ calls' = calls + 1
    /\ last' = CheckCall("leave", "", E_Nil, "ok")
    /\ hist' = [hist EXCEPT !.nested_left =
                    @ \/ (/\ scopes[Len(scopes) - 1].kind = "func"
                          /\ EnclosingFunc(scopes') # 0
                          /\ scopes'[EnclosingFunc(scopes')].kind = "vararg func")]
    /\ UNCHANGED <<tvarVars, next_mark, mark_infos, globals>>

\* Checker::new on one of the given global scopes, and Checker::visit on a
\* chunk, up to its visit_block
InitCheck(given) ==
    /\ next_tvar = 0
    /\ tvar_sub = NewConstraints
    /\ tvar_sup = NewConstraints
    /\ tvar_eq = NewConstraints
    /\ next_mark = 0
    /\ mark_infos = [m \in Marks |-> NoMarkEntry]
    /\ calls = 0
    /\ last = CheckCall("none", "", E_Nil, "ok")
    /\ hist = NoHist
    /\ globals \in given
    /\ scopes = MakeSubenv(<<NewScope("env", 0)>>, "block", MaxBlockLen + 1)
    /\ lexer = NoLexer
    /\ visit = [NoVisit EXCEPT !.status = "running"]

\* scoping: locals, assignments, assumed types and plain calls in nested blocks
ScopeExps == {E_Table, E_Func, E_Var("q")}
ScopeCalls == {E_FuncCall(n, <<>>) : n \in Names}
ScopeInfos == {TyInfo(T_Dynamic, "None"), TyInfo(T_Table, "None")}

NextCheck ==
    \/ VisitLocal(Names, ScopeExps)
    \/ VisitAssign(Names, ScopeExps)
    \/ VisitVoid(ScopeCalls)
    \/ VisitKailuaAssume(Names, ScopeInfos)
    \/ VisitDo
    \/ VisitFor
    \/ LeaveBlock

SpecCheck == InitCheck({NewNames}) /\ [][NextCheck]_vars

\* require: calls of a global p that may carry the builtin, and what the
\* module and the requiring code bind
RequireGlobals ==
    {[NewNames EXCEPT !["p"] = info] :
        info \in {TyInfo(T_Dynamic, "Require"), TyInfo(T_Dynamic, "None"),
                  TyInfo(T_Table, "Require")}}
RequireArgs == {<<E_Str("m")>>, <<E_Var("q")>>, <<E_Str("m"), E_Var("q")>>}
RequireCalls == {E_FuncCall("p", a) : a \in RequireArgs} \cup {E_FuncCall("q", <<>>)}

NextRequire ==
    \/ VisitVoid(RequireCalls)
    \/ VisitLocal({"q"}, {E_Func})
    \/ VisitAssign({"q"}, {E_Func})
    \/ LeaveBlock

SpecRequire == InitCheck(RequireGlobals) /\ [][NextRequire]_vars

\* functions: declarations with and without `...`, and uses of `...`
NextFunc ==
    \/ VisitFuncDecl
    \/ VisitLocal({"q"}, {E_Varargs})
    \/ LeaveBlock

SpecFunc == InitCheck({NewNames}) /\ [][NextFunc]_vars

\* ------------------------------------------------ properties of the checker

\* C13 (as stated): a statement that fails does not keep the later statements
\* of its block from being visited: when Checker::visit has returned with an
\* error, no statement of a block it went into is left unvisited.
C13_LaterStatementsVisited ==
    visit.status = "err" => visit.skipped = 0

\* a step of the checker that visits a statement
IsVisit == calls' = calls + 1 /\ last'.op \notin {"none", "leave"}

\* the scopes of s, among the first k, that define name
Defining(s, k, name) == {i \in 1 .. k : s[i].names[name] # NoInfo}

Highest(S) == CHOOSE i \in S : \A j \in S : j <= i

\* what the claim says a lookup of name yields when the first k scopes of s
\* are on the stack: the binding of the innermost scope that defines the
\* name, the global binding when none does
Innermost(s, k, g, name) ==
    IF Defining(s, k, name) = {} THEN g[name]
    ELSE s[Highest(Defining(s, k, name))].names[name]

\* C14: `local p = q` binds p to the binding of q in the innermost scope that
\* defines q, to the global binding of q when no scope does, and is an error
\* exactly when q is bound nowhere; a call of a name bound nowhere is an
\* error; and when a block has been left, every name is looked up as if only
\* the scopes outside the block were there.
C14_Lookup ==
    [][/\ (IsVisit /\ last'.op = "Local" /\ last'.exp = E_Var("q")) =>
            /\ last'.res = "err" <=> Innermost(scopes, Len(scopes), globals, "q") = NoInfo
            /\ last'.res = "ok" =>
                  scopes'[Len(scopes')].names[last'.name]
                      = Innermost(scopes, Len(scopes), globals, "q")
       /\ (IsVisit /\ last'.op = "Void"
              /\ Innermost(scopes, Len(scopes), globals, last'.exp.name) = NoInfo) =>
            last'.res = "err"
       /\ (calls' = calls + 1 /\ last'.op = "leave") =>
            /\ Len(scopes') < Len(scopes)
            /\ \A n \in Names :
                  GetVar(scopes', globals', n)
                      = Innermost(scopes, Len(scopes'), globals, n)]_vars

\* q is bound to a table outside and to a function in the block, and a lookup
\* of q in the block has yielded the function
C14_Witness ==
    /\ last.op = "Local" /\ last.exp = E_Var("q") /\ last.name = "p" /\ last.res = "ok"
    /\ Cardinality(Defining(scopes, Len(scopes), "q")) >= 2
    /\ \E i \in Defining(scopes, Len(scopes), "q") :
          scopes[i].names["q"] # scopes[Len(scopes)].names["p"]

\* ------------------------------------------- Env driven directly (env.rs)

\* number of Env method calls in one behaviour of SpecEnv
MaxEnvCalls == 4

\* the bindings handed to the methods of Env
EnvInfos == {NewTyInfo(T_Table), NewTyInfo(T_Function), TyInfo(T_Dynamic, "Require")}

\* the record kept in `last` for a call of a method of Env: the method, its
\* arguments, what get_var yielded for the name before the call, the result
EnvCall(op, name, info, pre, res) ==
    [op |-> op, name |-> name, info |-> info, pre |-> pre, res |-> res]

EnvStep(r, call) ==
    /\ scopes' = r.scopes
    /\ globals' = r.globals
    /\ calls' = calls + 1
    /\ last' = call
    /\ hist' = [hist EXCEPT !.all_ok = @ /\ r.ok]
    /\ UNCHANGED <<tvarVars, next_mark, mark_infos, visit, lexer>>

\* Env::enter(Scope::new())
EnvEnter ==
    /\ calls < MaxEnvCalls
    /\ EnvStep(EnvRes(Append(scopes, NewScope("block", 0)), globals, TRUE),
               EnvCall("enter", "", NoInfo, NoInfo, "ok"))

\* Env::leave; its assertion keeps the first scope
EnvLeave ==
    /\ calls < MaxEnvCalls
    /\ Len(scopes) > 1
    /\ EnvStep(EnvRes(SubSeq(scopes, 1, Len(scopes) - 1), globals, TRUE),
               EnvCall("leave", "", NoInfo, NoInfo, "ok"))

EnvAddLocalVar ==
    /\ calls < MaxEnvCalls
    /\ \E name \in Names, info \in EnvInfos :
          EnvStep(EnvRes(AddLocalVar(scopes, name, info), globals, TRUE),
                  EnvCall("add_local_var", name, info, GetVar(scopes, globals, name), "ok"))

EnvAssignToVar ==
    /\ calls < MaxEnvCalls
    /\ \E name \in Names, info \in EnvInfos :
          LET r == AssignToVar(scopes, globals, name, info)
          IN  EnvStep(r, EnvCall("assign_to_var", name, info, GetVar(scopes, globals, name),
                                 IF r.ok THEN "ok" ELSE "err"))

EnvAssumeVar ==
    /\ calls < MaxEnvCalls
    /\ \E name \in Names, info \in EnvInfos :
          LET r == AssumeVar(scopes, globals, name, info)
          IN  EnvStep(r, EnvCall("assume_var", name, info, GetVar(scopes, globals, name),
                                 IF r.ok THEN "ok" ELSE "err"))

\* Env::new on an empty global scope
InitEnv ==
    /\ next_tvar = 0
    /\ tvar_sub = NewConstraints
    /\ tvar_sup = NewConstraints
    /\ tvar_eq = NewConstraints
    /\ next_mark = 0
    /\ mark_infos = [m \in Marks |-> NoMarkEntry]
    /\ calls = 0
    /\ last = EnvCall("none", "", NoInfo, NoInfo, "ok")
    /\ hist = NoHist
    /\ globals = NewNames
    /\ scopes = <<NewScope("env", 0)>>
    /\ lexer = NoLexer
    /\ visit = NoVisit

NextEnv == EnvEnter \/ EnvLeave \/ EnvAddLocalVar \/ EnvAssignToVar \/ EnvAssumeVar

SpecEnv == InitEnv /\ [][NextEnv]_vars

IsEnvCall(op) == calls' = calls + 1 /\ last'.op = op

\* C15: assign_to_var on a name some scope binds returns Ok exactly when the
\* type of the innermost binding accepts the type assigned, and changes no
\* scope and no global either way; on a name no scope binds it returns Ok
\* and binds the global name to the info assigned.
C15_AssignToVar ==
    [][IsEnvCall("assign_to_var") =>
        LET name == last'.name
            info == last'.info
        IN  IF Defining(scopes, Len(scopes), name) # {}
            THEN /\ last'.res = "ok" <=>
                        Accept(Innermost(scopes, Len(scopes), globals, name).ty, info.ty)
                 /\ scopes' = scopes
                 /\ globals' = globals
            ELSE /\ last'.res = "ok"
                 /\ scopes' = scopes
                 /\ globals' = [globals EXCEPT ![name] = info]]_vars

\* a function-typed local that has rejected an assignment accepts a function
C15_Witness ==
    /\ last.op = "assign_to_var" /\ last.res = "ok" /\ ~hist.all_ok
    /\ last.info = NewTyInfo(T_Function)
    /\ Defining(scopes, Len(scopes), last.name) # {}
    /\ \A n \in Names \ {last.name} : Defining(scopes, Len(scopes), n) = {}

\* C16: assume_var returns Ok whatever was bound; afterwards a lookup of the
\* name yields the info assumed; the only binding changed is the innermost
\* local binding of the name when some scope has one, the global binding of
\* the name otherwise.
C16_AssumeVar ==
    [][IsEnvCall("assume_var") =>
        LET name == last'.name
            info == last'.info
            D    == Defining(scopes, Len(scopes), name)
        IN  /\ last'.res = "ok"
            /\ GetVar(scopes', globals', name) = info
            /\ IF D # {}
               THEN /\ scopes' = [scopes EXCEPT ![Highest(D)].names[name] = info]
                    /\ globals' = globals
               ELSE /\ scopes' = scopes
                    /\ globals' = [globals EXCEPT ![name] = info]]_vars

\* an assumed type has replaced a different binding held by an outer scope
C16_Witness ==
    /\ last.op = "assume_var" /\ last.pre # NoInfo /\ last.pre # last.info
    /\ Len(scopes) >= 2
    /\ scopes[Len(scopes)].names[last.name] = NoInfo
    /\ scopes[1].names[last.name] = last.info

\* ------------------------------------------------------ properties of require

\* C17: a call whose callee is bound to a function or dynamic type and whose
\* arguments all check calls the loader once, with the literal as path, when
\* the callee carries the Require builtin and the first argument is a string
\* literal; any other call does not call it and, when callee and arguments
\* check, returns Ok; a loader error makes the statement fail, a block
\* returned by the loader is entered in the Env of a module.
C17_Loader ==
    [][(IsVisit /\ last'.op = "Void") =>
        LET exp     == last'.exp
            callee  == GetVar(scopes, globals, exp.name)
            checked == /\ callee # NoInfo
                       /\ callee.ty \in {T_Function, T_Dynamic}
                       /\ \A i \in 1 .. Len(exp.args) :
                             exp.args[i].e = "Var" =>
                                 GetVar(scopes, globals, exp.args[i].name) # NoInfo
            require == /\ callee.builtin = "Require"
                       /\ Len(exp.args) >= 1
                       /\ exp.args[1].e = "Str"
        IN  /\ visit'.loads = visit.loads + (IF checked /\ require THEN 1 ELSE 0)
            /\ (checked /\ require) => last'.path = exp.args[1].str /\ last'.loader # "none"
            /\ ~(checked /\ require) => last'.path = "" /\ last'.loader = "none"
            /\ (checked /\ ~require) => last'.res = "ok"
            /\ ~checked => last'.res = "err"
            /\ last'.loader = "err" => last'.res = "err"
            /\ last'.loader = "ok" =>
                  /\ last'.res = "ok"
                  /\ Len(scopes') = Len(scopes) + 2
                  /\ scopes'[Len(scopes) + 1].kind = "env"]_vars

\* the loader has been called for require("m", q) after q was found bound
C17_Witness ==
    /\ last.op = "Void" /\ last.loader = "ok" /\ last.path = "m"
    /\ Len(last.exp.args) = 2
    /\ visit.loads >= 1

\* C18: in the requiring chunk, outside every module, a call of q checks Ok
\* when a required module has assigned q with no local q of its own, and is
\* an error when q was only declared local by required modules and the chunk
\* itself never bound it.
C18_ModuleGlobals ==
    [][(IsVisit /\ last'.op = "Void" /\ last'.exp = E_FuncCall("q", <<>>)
            /\ ~InModule(scopes)) =>
        /\ "q" \in hist.mod_globals => last'.res = "ok"
        /\ ("q" \in hist.mod_locals /\ "q" \notin (hist.mod_globals \cup hist.own))
              => last'.res = "err"]_vars

\* the chunk has called q, which only a required module has bound
C18_Witness ==
    /\ last.op = "Void" /\ last.exp = E_FuncCall("q", <<>>) /\ last.res = "ok"
    /\ ~InModule(scopes)
    /\ "q" \in hist.mod_globals /\ "q" \notin hist.own
    /\ visit.loads >= 1

\* C19: in the body of a function, `...` is bound exactly when the innermost
\* function around the use was declared with `...`, whatever the functions
\* around that one were declared with and whatever functions have been
\* checked inside it before.
C19_Varargs ==
    [][(IsVisit /\ last'.op = "Local" /\ last'.exp = E_Varargs
            /\ EnclosingFunc(scopes) # 0) =>
        (last'.res = "ok" <=> scopes[EnclosingFunc(scopes)].kind = "vararg func")]_vars

\* `...` has been used in a function declared with it, after a function
\* without `...` nested in that function has been checked
C19_Witness ==
    /\ last.op = "Local" /\ last.exp = E_Varargs /\ last.res = "ok"
    /\ hist.nested_left
    /\ EnclosingFunc(scopes) # 0
    /\ scopes[EnclosingFunc(scopes)].kind = "vararg func"

\* ------------------------------------------------- the lattice of ty.rs

\* number of union / intersect calls in one behaviour of SpecLattice
MaxLatticeCalls == 2

\* enum Functions: None, All or Some of a disjunction (a sequence) of
\* overloaded functions (each a sequence of Function); a Function is a name
\* here, equal names standing for equal argument and return types
Fns(k, set) == [k |-> k, set |-> set]
F_None == Fns("None", <<>>)
F_All  == Fns("All", <<>>)
F_Some(set) == Fns("Some", set)

\* impl Lattice for Functions: union
FunctionsUnion(a, b) ==
    IF a.k = "None" THEN b
    ELSE IF b.k = "None" THEN a
    ELSE IF a.k = "All" \/ b.k = "All" THEN F_All
    ELSE F_Some(a.set \o b.set)

\* impl Lattice for Functions: intersect
FunctionsIntersect(a, b) ==
    IF a.k = "None" \/ b.k = "None" THEN F_None
    ELSE IF a.k = "All" THEN b
    ELSE IF b.k = "All" THEN a
    ELSE F_Some([n \in 1 .. Len(a.set) * Len(b.set) |->
                    a.set[((n - 1) \div Len(b.set)) + 1] \o b.set[((n - 1) % Len(b.set)) + 1]])

\* impl PartialEq for Functions
FunctionsEq(a, b) ==
    \/ a.k = "None" /\ b.k = "None"
    \/ a.k = "All" /\ b.k = "All"
    \/ a.k = "Some" /\ b.k = "Some" /\ a.set = b.set
    \/ a.k = "Some" /\ b.k = "None" /\ a.set = <<>>
    \/ a.k = "None" /\ b.k = "Some" /\ b.set = <<>>

\* impl Lattice for Numbers, without sets of integers: None, Int, All
NumbersUnion(a, b) ==
    IF a = "None" THEN b
    ELSE IF b = "None" THEN a
    ELSE IF a = "All" \/ b = "All" THEN "All"
    ELSE "Int"

NumbersIntersect(a, b) ==
    IF a = "None" \/ b = "None" THEN "None"
    ELSE IF a = "Int" \/ b = "Int" THEN "Int"
    ELSE "All"

\* impl Lattice for Strings, without sets of strings: None, All
StringsUnion(a, b) == IF a = "None" THEN b ELSE IF b = "None" THEN a ELSE "All"

StringsIntersect(a, b) == IF a = "None" \/ b = "None" THEN "None" ELSE "All"

\* impl Lattice for Tables, without records, tuples, arrays and maps: None, Empty, All
TablesUnion(a, b) ==
    IF a = "None" THEN b
    ELSE IF b = "None" THEN a
    ELSE IF a = "Empty" THEN b
    ELSE IF b = "Empty" THEN a
    ELSE "All"

TablesIntersect(a, b) ==
    IF a = "None" \/ b = "None" THEN "None"
    ELSE IF a = "Empty" \/ b = "Empty" THEN "Empty"
    ELSE "All"

\* struct Union, as Union::from starts it
EmptyUnion ==
    [has_dynamic |-> FALSE, has_nil |-> FALSE, has_true |-> FALSE, has_false |-> FALSE,
     numbers |-> "None", strings |-> "None", tables |-> "None", functions |-> F_None]

\* enum T of ty.rs: the variant, the overloaded function of SomeFunction, the Union of Union
Lat(tag, funcs, un) == [tag |-> tag, funcs |-> funcs, un |-> un]
L(tag) == Lat(tag, <<>>, EmptyUnion)
L_SomeFunction(funcs) == Lat("SomeFunction", funcs, EmptyUnion)
L_Union(un) == Lat("Union", <<>>, un)

\* Union::from
UnionFrom(ty) ==
    CASE ty.tag = "Dynamic"      -> [EmptyUnion EXCEPT !.has_dynamic = TRUE]
      [] ty.tag = "None"         -> EmptyUnion
      [] ty.tag = "Nil"          -> [EmptyUnion EXCEPT !.has_nil = TRUE]
      [] ty.tag = "Boolean"      -> [EmptyUnion EXCEPT !.has_true = TRUE, !.has_false = TRUE]
      [] ty.tag = "True"         -> [EmptyUnion EXCEPT !.has_true = TRUE]
      [] ty.tag = "False"        -> [EmptyUnion EXCEPT !.has_false = TRUE]
      [] ty.tag = "Number"       -> [EmptyUnion EXCEPT !.numbers = "All"]
      [] ty.tag = "Integer"      -> [EmptyUnion EXCEPT !.numbers = "Int"]
      [] ty.tag = "String"       -> [EmptyUnion EXCEPT !.strings = "All"]
      [] ty.tag = "Table"        -> [EmptyUnion EXCEPT !.tables = "All"]
      [] ty.tag = "EmptyTable"   -> [EmptyUnion EXCEPT !.tables = "Empty"]
      [] ty.tag = "Function"     -> [EmptyUnion EXCEPT !.functions = F_All]
      [] ty.tag = "SomeFunction" -> [EmptyUnion EXCEPT !.functions = F_Some(<<ty.funcs>>)]
      [] ty.tag = "Union"        -> ty.un

\* Union::visit: the types handed to the closure, in order
UnionVisit(u) ==
    IF u.has_dynamic THEN <<L("Dynamic")>>
    ELSE (IF u.has_nil THEN <<L("Nil")>> ELSE <<>>)
      \o (IF u.has_true THEN (IF u.has_false THEN <<L("Boolean")>> ELSE <<L("True")>>)
          ELSE IF u.has_false THEN <<L("False")>> ELSE <<>>)
      \o (CASE u.numbers = "None" -> <<>>
            [] u.numbers = "Int"  -> <<L("Integer")>>
            [] u.numbers = "All"  -> <<L("Number")>>)
      \o (IF u.strings = "All" THEN <<L("String")>> ELSE <<>>)
      \o (CASE u.tables = "None"  -> <<>>
            [] u.tables = "Empty" -> <<L("EmptyTable")>>
            [] u.tables = "All"   -> <<L("Table")>>)
      \o (CASE u.functions.k = "None" -> <<>>
            [] u.functions.k = "All"  -> <<L("Function")>>
            [] u.functions.k = "Some" ->
                  [i \in 1 .. Len(u.functions.set) |-> L_SomeFunction(u.functions.set[i])])

\* Union::simplify
Simplify(u) ==
    LET visited == UnionVisit(u)
    IN  IF Len(visited) = 0 THEN L("None")
        ELSE IF Len(visited) = 1 THEN visited[1]
        ELSE L_Union(u)

\* impl Lattice for Union: union
UnionUnion(a, b) ==
    [has_dynamic |-> a.has_dynamic \/ b.has_dynamic,
     has_nil     |-> a.has_nil \/ b.has_nil,
     has_true    |-> a.has_true \/ b.has_true,
     has_false   |-> a.has_false \/ b.has_false,
     numbers     |-> NumbersUnion(a.numbers, b.numbers),
     strings     |-> StringsUnion(a.strings, b.strings),
     tables      |-> TablesUnion(a.tables, b.tables),
     functions   |-> FunctionsUnion(a.functions, b.functions)]

\* impl Lattice for Union: intersect
UnionIntersect(a, b) ==
    [has_dynamic |-> a.has_dynamic /\ b.has_dynamic,
     has_nil     |-> a.has_nil /\ b.has_nil,
     has_true    |-> a.has_true /\ b.has_true,
     has_false   |-> a.has_false /\ b.has_false,
     numbers     |-> NumbersIntersect(a.numbers, b.numbers),
     strings     |-> StringsIntersect(a.strings, b.strings),
     tables      |-> TablesIntersect(a.tables, b.tables),
     functions   |-> FunctionsIntersect(a.functions, b.functions)]

\* the variants with an arm `A | A == A` / `A & A == A` of their own
SameArm == {"Nil", "Boolean", "Number", "String", "Table", "EmptyTable", "Function"}

\* impl Lattice for T: union
LatUnion(lhs, rhs) ==
    IF lhs.tag = "Dynamic" \/ rhs.tag = "Dynamic" THEN L("Dynamic")
    ELSE IF lhs.tag = "None" THEN rhs
    ELSE IF rhs.tag = "None" THEN lhs
    ELSE IF lhs.tag = rhs.tag /\ lhs.tag \in SameArm THEN lhs
    ELSE Simplify(UnionUnion(UnionFrom(lhs), UnionFrom(rhs)))

\* impl Lattice for T: intersect
LatIntersect(lhs, rhs) ==
    IF lhs.tag = "Dynamic" THEN rhs
    ELSE IF rhs.tag = "Dynamic" THEN lhs
    ELSE IF lhs.tag = "None" \/ rhs.tag = "None" THEN L("None")
    ELSE IF lhs.tag = rhs.tag /\ lhs.tag \in SameArm THEN lhs
    ELSE Simplify(UnionIntersect(UnionFrom(lhs), UnionFrom(rhs)))

\* #[derive(PartialEq)] of Union over the PartialEq of its parts
UnionEq(a, b) ==
    /\ a.has_dynamic = b.has_dynamic /\ a.has_nil = b.has_nil
    /\ a.has_true = b.has_true /\ a.has_false = b.has_false
    /\ a.numbers = b.numbers /\ a.strings = b.strings /\ a.tables = b.tables
    /\ FunctionsEq(a.functions, b.functions)

\* #[derive(PartialEq)] of T
LatEq(a, b) ==
    /\ a.tag = b.tag
    /\ a.tag = "SomeFunction" => a.funcs = b.funcs
    /\ a.tag = "Union" => UnionEq(a.un, b.un)

\* the canonical types the operations are applied to
LatticeTypes ==
    {L(tag) : tag \in {"Dynamic", "Nil", "Boolean", "True", "Number", "Integer", "String",
                       "Table", "EmptyTable", "Function"}}
        \cup {L_SomeFunction(<<"f">>), L_SomeFunction(<<"g">>), L_SomeFunction(<<"f", "g">>),
              L_Union([EmptyUnion EXCEPT !.has_nil = TRUE, !.strings = "All"])}

\* the record kept in `last` for an operation of the lattice
LatCall(op, lhs, rhs, res) == [op |-> op, lhs |-> lhs, rhs |-> rhs, res |-> res]

\* the operands: a canonical type or the result of the operation before
Operands == LatticeTypes \cup (IF last.op = "none" THEN {} ELSE {last.res})

LatStep(call) ==
    /\ calls' = calls + 1
    /\ last' = call
    /\ UNCHANGED <<tvarVars, next_mark, mark_infos, hist, checkVars>>

TakeUnion ==
    /\ calls < MaxLatticeCalls
    /\ \E lhs \in Operands, rhs \in Operands :
          LatStep(LatCall("union", lhs, rhs, LatUnion(lhs, rhs)))

TakeIntersect ==
    /\ calls < MaxLatticeCalls
    /\ \E lhs \in Operands, rhs \in Operands :
          LatStep(LatCall("intersect", lhs, rhs, LatIntersect(lhs, rhs)))

InitLattice ==
    /\ next_tvar = 0
    /\ tvar_sub = NewConstraints
    /\ tvar_sup = NewConstraints
    /\ tvar_eq = NewConstraints
    /\ next_mark = 0
    /\ mark_infos = [m \in Marks |-> NoMarkEntry]
    /\ calls = 0
    /\ last = LatCall("none", L("None"), L("None"), L("None"))
    /\ hist = NoHist
    /\ globals = NewNames
    /\ scopes = <<NewScope("env", 0)>>
    /\ lexer = NoLexer
    /\ visit = NoVisit

NextLattice == TakeUnion \/ TakeIntersect

SpecLattice == InitLattice /\ [][NextLattice]_vars

\* C20 (as stated): the union and the intersection of a canonical type with
\* itself equal that type under the equality of the types.
C20_Idempotent ==
    (last.op \in {"union", "intersect"} /\ last.lhs = last.rhs /\ last.lhs \in LatticeTypes)
        => LatEq(last.res, last.lhs)

\* C21 (as stated): the union and the intersection of two canonical types do
\* not depend on the order of the operands, under the equality of the types.
C21_Commutative ==
    (last.op \in {"union", "intersect"} /\ last.lhs \in LatticeTypes /\ last.rhs \in LatticeTypes)
        => LatEq(last.res, IF last.op = "union" THEN LatUnion(last.rhs, last.lhs)
                                                ELSE LatIntersect(last.rhs, last.lhs))

\* --------------------------------- value types (ty/value.rs, ty/union.rs)

\* number of operations applied to one pair of value types in one behaviour of SpecValue
MaxValueCalls == 2

\* Option<Numbers> and Option<Strings>: None (of Option), One, Some, Int (numbers
\* only) or All, with the literals of One and Some
Lit(k, set) == [k |-> k, set |-> set]
NoLit == Lit("None", {})

\* struct Unioned; tables and functions are "None" (of Option) or the variant,
\* classes is the set of <<kind, id>>, tvar is -1 for None
Unioned(simple, numbers, strings, tables, functions, classes, tvar) ==
    [simple |-> simple, numbers |-> numbers, strings |-> strings, tables |-> tables,
     functions |-> functions, classes |-> classes, tvar |-> tvar]

\* Unioned::empty
UnionedEmpty == Unioned({}, NoLit, NoLit, "None", "None", {}, -1)

\* enum T of value.rs: the variant; v, the variant of the enum it carries (Dyn,
\* Tables, Functions, Class, Builtin) or the literal of Str; n, the literal of Int
\* or the id of Class and TVar; inner, the type under a Builtin; un, the Unioned
Ty(tag, v, n, inner, un) == [tag |-> tag, v |-> v, n |-> n, inner |-> inner, un |-> un]

Ty_Simple(tag)     == Ty(tag, "", 0, <<>>, UnionedEmpty)
Ty_Dynamic(dyn)    == Ty("Dynamic", dyn, 0, <<>>, UnionedEmpty)
Ty_Int(n)          == Ty("Int", "", n, <<>>, UnionedEmpty)
Ty_Str(s)          == Ty("Str", s, 0, <<>>, UnionedEmpty)
Ty_Tables(tab)     == Ty("Tables", tab, 0, <<>>, UnionedEmpty)
Ty_Functions(func) == Ty("Functions", func, 0, <<>>, UnionedEmpty)
Ty_Class(kind, c)  == Ty("Class", kind, c, <<>>, UnionedEmpty)
Ty_TVar(tv)        == Ty("TVar", "", tv, <<>>, UnionedEmpty)
Ty_Builtin(b, t)   == Ty("Builtin", b, 0, <<t>>, UnionedEmpty)
Ty_Union(u)        == Ty("Union", "", 0, <<>>, u)

\* the outcome of an operation that panics
Ty_Panic(msg) == Ty("panic", msg, 0, <<>>, UnionedEmpty)

\* impl BitOr for Dyn
DynOr(lhs, rhs) == IF lhs = "Oops" \/ rhs = "Oops" THEN "Oops" ELSE "User"

\* T::get_dynamic, "" for None
RECURSIVE GetDynamic(_)
GetDynamic(t) ==
    IF t.tag = "Dynamic" THEN t.v
    ELSE IF t.tag = "Builtin" THEN GetDynamic(t.inner[1])
    ELSE ""

\* T::get_tvar, -1 for None
RECURSIVE GetTVar(_)
GetTVar(t) ==
    IF t.tag = "TVar" THEN t.n
    ELSE IF t.tag = "Builtin" THEN GetTVar(t.inner[1])
    ELSE IF t.tag = "Union" THEN t.un.tvar
    ELSE -1

\* T::as_base that leaves the attribute in place
AsBase_Keeping(t) == t

\* T::as_base
AsBase(t) == IF t.tag = "Builtin" THEN t.inner[1] ELSE t

\* the outcome of Unioned::from: the Unioned, or the panic
FromRes(panic, u) == [panic |-> panic, u |-> u]

\* Unioned::from
UnionedFrom(ty) ==
    LET base == AsBase(ty)
        u == UnionedEmpty
    IN  CASE base.tag \in {"Dynamic", "All"} ->
                FromRes("Unioned::from called with T::Dynamic or T::All", u)
          [] base.tag = "None"      -> FromRes("", u)
          [] base.tag = "Nil"       -> FromRes("", [u EXCEPT !.simple = {"nil"}])
          [] base.tag = "Boolean"   -> FromRes("", [u EXCEPT !.simple = {"true", "false"}])
          [] base.tag = "True"      -> FromRes("", [u EXCEPT !.simple = {"true"}])
          [] base.tag = "False"     -> FromRes("", [u EXCEPT !.simple = {"false"}])
          [] base.tag = "Thread"    -> FromRes("", [u EXCEPT !.simple = {"thread"}])
          [] base.tag = "UserData"  -> FromRes("", [u EXCEPT !.simple = {"userdata"}])
          [] base.tag = "Number"    -> FromRes("", [u EXCEPT !.numbers = Lit("All", {})])
          [] base.tag = "Integer"   -> FromRes("", [u EXCEPT !.numbers = Lit("Int", {})])
          [] base.tag = "Int"       -> FromRes("", [u EXCEPT !.numbers = Lit("One", {base.n})])
          [] base.tag = "String"    -> FromRes("", [u EXCEPT !.strings = Lit("All", {})])
          [] base.tag = "Str"       -> FromRes("", [u EXCEPT !.strings = Lit("One", {base.v})])
          [] base.tag = "Tables"    -> FromRes("", [u EXCEPT !.tables = base.v])
          [] base.tag = "Functions" -> FromRes("", [u EXCEPT !.functions = base.v])
          [] base.tag = "Class"     -> FromRes("", [u EXCEPT !.classes = {<<base.v, base.n>>}])
          [] base.tag = "TVar"      -> FromRes("", [u EXCEPT !.tvar = base.n])
          [] base.tag = "Builtin"   -> FromRes("unreachable", u)
          [] base.tag = "Union"     -> FromRes("", base.un)

\* the elements of a set in the order its iterator yields them
RECURSIVE Iter(_)
Iter(S) ==
    IF S = {} THEN <<>>
    ELSE LET x == CHOOSE y \in S : TRUE IN <<x>> \o Iter(S \ {x})

\* Unioned::visit: the types handed to the closure, in order
UnionedVisit(u) ==
    LET nums == Iter(u.numbers.set)
        strs == Iter(u.strings.set)
        clss == Iter(u.classes)
    IN  (IF "nil" \in u.simple THEN <<Ty_Simple("Nil")>> ELSE <<>>)
     \o (IF "true" \in u.simple
         THEN (IF "false" \in u.simple THEN <<Ty_Simple("Boolean")>> ELSE <<Ty_Simple("True")>>)
         ELSE IF "false" \in u.simple THEN <<Ty_Simple("False")>> ELSE <<>>)
     \o (IF "thread" \in u.simple THEN <<Ty_Simple("Thread")>> ELSE <<>>)
     \o (IF "userdata" \in u.simple THEN <<Ty_Simple("UserData")>> ELSE <<>>)
     \o (CASE u.numbers.k = "All" -> <<Ty_Simple("Number")>>
           [] u.numbers.k = "Int" -> <<Ty_Simple("Integer")>>
           [] u.numbers.k \in {"Some", "One"} -> [i \in 1 .. Len(nums) |-> Ty_Int(nums[i])]
           [] u.numbers.k = "None" -> <<>>)
     \o (CASE u.strings.k = "All" -> <<Ty_Simple("String")>>
           [] u.strings.k \in {"Some", "One"} -> [i \in 1 .. Len(strs) |-> Ty_Str(strs[i])]
           [] u.strings.k = "None" -> <<>>)
     \o (IF u.tables # "None" THEN <<Ty_Tables(u.tables)>> ELSE <<>>)
     \o (IF u.functions # "None" THEN <<Ty_Functions(u.functions)>> ELSE <<>>)
     \o [i \in 1 .. Len(clss) |-> Ty_Class(clss[i][1], clss[i][2])]
     \o (IF u.tvar # -1 THEN <<Ty_TVar(u.tvar)>> ELSE <<>>)

\* Unioned::simplify that unwraps the first type of any Unioned
UnionedSimplify_First(u) ==
    LET visited == UnionedVisit(u)
    IN  IF Len(visited) = 0 THEN Ty_Simple("None") ELSE visited[1]

\* Unioned::simplify
UnionedSimplify(u) ==
    LET visited == UnionedVisit(u)
    IN  IF Len(visited) = 0 THEN Ty_Simple("None")
        ELSE IF Len(visited) = 1 THEN visited[1]
        ELSE Ty_Union(u)

\* union of Option<Numbers> and of Option<Strings>: the sets are united and a set
\* of one literal is One
LitUnion(a, b) ==
    IF a.k = "None" THEN b
    ELSE IF b.k = "None" THEN a
    ELSE IF a.k = "All" \/ b.k = "All" THEN Lit("All", {})
    ELSE IF a.k = "Int" \/ b.k = "Int" THEN Lit("Int", {})
    ELSE IF Cardinality(a.set \cup b.set) = 1 THEN Lit("One", a.set \cup b.set)
    ELSE Lit("Some", a.set \cup b.set)

\* union of Option<Tables> over None, Empty and All, and of Option<Functions>
\* over None and All
OptUnion(a, b) ==
    IF a = "None" THEN b
    ELSE IF b = "None" THEN a
    ELSE IF a = "Empty" THEN b
    ELSE IF b = "Empty" THEN a
    ELSE "All"

\* impl Lattice for Unioned: union, of two Unioned that do not both hold a tvar
UnionedUnion(a, b) ==
    Unioned(a.simple \cup b.simple,
            LitUnion(a.numbers, b.numbers),
            LitUnion(a.strings, b.strings),
            OptUnion(a.tables, b.tables),
            OptUnion(a.functions, b.functions),
            a.classes \cup b.classes,
            IF a.tvar # -1 THEN a.tvar ELSE b.tvar)

\* T::union, the arms below those of Dynamic and All
TUnionRest(lhs, rhs) ==
    LET l == lhs.tag
        r == rhs.tag
        bools == {"Boolean", "True", "False"}
    IN  IF l = "None" THEN rhs
        ELSE IF r = "None" THEN lhs
        ELSE IF l = r /\ l \in {"Nil", "Boolean", "True", "False", "Thread", "UserData"} THEN lhs
        ELSE IF l \in bools /\ r \in bools THEN Ty_Simple("Boolean")
        ELSE IF (l = "Number" /\ r \in {"Number", "Integer", "Int"})
                  \/ (r = "Number" /\ l \in {"Integer", "Int"}) THEN Ty_Simple("Number")
        ELSE IF (l = "Integer" /\ r \in {"Integer", "Int"})
                  \/ (r = "Integer" /\ l = "Int") THEN Ty_Simple("Integer")
        ELSE IF (l = "String" /\ r \in {"String", "Str"})
                  \/ (r = "String" /\ l = "Str") THEN Ty_Simple("String")
        ELSE IF l = "Int" /\ r = "Int" /\ lhs.n = rhs.n THEN lhs
        ELSE IF l = "Str" /\ r = "Str" /\ lhs.v = rhs.v THEN lhs
        ELSE IF l = "Tables" /\ r = "Tables" THEN Ty_Tables(OptUnion(lhs.v, rhs.v))
        ELSE IF l = "Functions" /\ r = "Functions" THEN Ty_Functions(OptUnion(lhs.v, rhs.v))
        ELSE IF l = "Class" /\ r = "Class" /\ lhs.v = rhs.v /\ lhs.n = rhs.n THEN lhs
        ELSE UnionedSimplify(UnionedUnion(UnionedFrom(lhs).u, UnionedFrom(rhs).u))

\* T::union below the arms of Builtin, with the arms of All before those of Dynamic
TUnionBase_TopFirst(lhs, rhs) ==
    IF lhs.tag = "All" \/ rhs.tag = "All" THEN Ty_Simple("All")
    ELSE IF lhs.tag = "Dynamic" /\ rhs.tag = "Dynamic" THEN Ty_Dynamic(DynOr(lhs.v, rhs.v))
    ELSE IF lhs.tag = "Dynamic" THEN lhs
    ELSE IF rhs.tag = "Dynamic" THEN rhs
    ELSE TUnionRest(lhs, rhs)

\* T::union below the arms of Builtin
TUnionBase(lhs, rhs) ==
    IF lhs.tag = "Dynamic" /\ rhs.tag = "Dynamic" THEN Ty_Dynamic(DynOr(lhs.v, rhs.v))
    ELSE IF lhs.tag = "Dynamic" THEN lhs
    ELSE IF rhs.tag = "Dynamic" THEN rhs
    ELSE IF lhs.tag = "All" \/ rhs.tag = "All" THEN Ty_Simple("All")
    ELSE TUnionRest(lhs, rhs)

\* T::union: built-in types are destructured first
RECURSIVE TUnion(_, _)
TUnion(lhs, rhs) ==
    IF lhs.tag = "Builtin" /\ rhs.tag = "Builtin" /\ lhs.v = rhs.v
    THEN Ty_Builtin(lhs.v, TUnion(lhs.inner[1], rhs.inner[1]))
    ELSE IF lhs.tag = "Builtin" /\ rhs.tag = "Builtin" THEN TUnion(lhs.inner[1], rhs.inner[1])
    ELSE IF lhs.tag = "Builtin" THEN TUnion(lhs.inner[1], rhs)
    ELSE IF rhs.tag = "Builtin" THEN TUnion(lhs, rhs.inner[1])
    ELSE TUnionBase(lhs, rhs)

\* PartialEq for T
TyEq(a, b) ==
    /\ a.tag = b.tag
    /\ CASE a.tag \in {"Dynamic", "Str", "Tables", "Functions", "Builtin"} -> a.v = b.v
         [] a.tag \in {"Int", "TVar"} -> a.n = b.n
         [] a.tag = "Class" -> a.v = b.v /\ a.n = b.n
         [] a.tag = "Union" -> a.un = b.un
         [] OTHER -> TRUE

\* Builtin::_Subtype and Builtin::_NoSubtype, the attributes of test_sub and test_eq
Builtins == {"_Subtype", "_NoSubtype"}

\* the types without an attribute and without a union the operations are applied to
ValueBases ==
    {Ty_Simple(tag) : tag \in {"All", "None", "Nil", "Boolean", "True", "False", "Integer",
                               "Number", "String", "Thread"}}
        \cup {Ty_Dynamic("User"), Ty_Dynamic("Oops"), Ty_Int(3), Ty_Int(4), Ty_Str("a"),
              Ty_Tables("All"), Ty_Tables("Empty"), Ty_Functions("All"),
              Ty_Class("Instance", 0), Ty_Class("Instance", 1), Ty_Class("Prototype", 0),
              Ty_TVar(0)}

\* the unions: 3|4, nil|integer, nil|true|string, table|function, two classes,
\* nil|<tvar 0>, integer|<tvar 0>
ValueUnions ==
    {Ty_Union([UnionedEmpty EXCEPT !.numbers = Lit("Some", {3, 4})]),
     Ty_Union([UnionedEmpty EXCEPT !.simple = {"nil"}, !.numbers = Lit("Int", {})]),
     Ty_Union([UnionedEmpty EXCEPT !.simple = {"nil", "true"}, !.strings = Lit("All", {})]),
     Ty_Union([UnionedEmpty EXCEPT !.tables = "All", !.functions = "All"]),
     Ty_Union([UnionedEmpty EXCEPT !.classes = {<<"Instance", 0>>, <<"Prototype", 0>>}]),
     Ty_Union([UnionedEmpty EXCEPT !.simple = {"nil"}, !.tvar = 0]),
     Ty_Union([UnionedEmpty EXCEPT !.numbers = Lit("Int", {}), !.tvar = 0])}

\* the types under an attribute
Attributed ==
    {Ty_Simple("Nil"), Ty_Simple("None"), Ty_Simple("All"), Ty_Simple("True"),
     Ty_Dynamic("User"), Ty_Dynamic("Oops"), Ty_Class("Prototype", 0), Ty_TVar(0),
     Ty_Union([UnionedEmpty EXCEPT !.simple = {"nil", "true"}, !.strings = Lit("All", {})]),
     Ty_Builtin("_Subtype", Ty_Simple("Nil"))}

ValueBuiltins == {Ty_Builtin(b, t) : b \in Builtins, t \in Attributed}

ValueTypes == ValueBases \cup ValueUnions \cup ValueBuiltins

\* the record kept in `last` for an operation on value types: the operands, the
\* type returned (union, simplify), Ok or Err (assert_sub, assert_eq) and the
\* calls made on the context, in order
ValCall(op, lhs, rhs, res, ok, ctx) ==
    [op |-> op, lhs |-> lhs, rhs |-> rhs, res |-> res, ok |-> ok, ctx |-> ctx]

ValueStep(call) ==
    /\ calls' = calls + 1
    /\ last' = call
    /\ UNCHANGED <<tvarVars, next_mark, mark_infos, hist, checkVars>>

\* lhs.union(&rhs, ctx) on the operands drawn; the union of two type variables is
\* left to TVar::union
TakeTUnion ==
    /\ calls < MaxValueCalls
    /\ GetTVar(last.lhs) = -1 \/ GetTVar(last.rhs) = -1
    /\ ValueStep(ValCall("union", last.lhs, last.rhs, TUnion(last.lhs, last.rhs), TRUE, <<>>))

\* the operands are drawn from ValueTypes
InitValue ==
    /\ next_tvar = 1
    /\ tvar_sub = NewConstraints
    /\ tvar_sup = NewConstraints
    /\ tvar_eq = NewConstraints
    /\ next_mark = 0
    /\ mark_infos = [m \in Marks |-> NoMarkEntry]
    /\ calls = 0
    /\ \E lhs \in ValueTypes, rhs \in ValueTypes :
          last = ValCall("none", lhs, rhs, Ty_Simple("None"), TRUE, <<>>)
    /\ hist = NoHist
    /\ globals = NewNames
    /\ scopes = <<NewScope("env", 0)>>
    /\ lexer = NoLexer
    /\ visit = NoVisit

\* C22: the union of a Dynamic with any type, bare or under attributes, in either
\* order is a Dynamic, Oops if either is Oops; the union of the top type with any
\* type is the top type unless that type is, under its attributes, a Dynamic,
\* and then it is that Dynamic.
C22_DynamicAndTop ==
    last.op = "union" =>
        /\ \A x \in {<<last.lhs, last.rhs>>, <<last.rhs, last.lhs>>} :
              /\ x[1].tag = "Dynamic" =>
                    TyEq(last.res, Ty_Dynamic(IF GetDynamic(x[2]) = "" THEN x[1].v
                                              ELSE DynOr(x[1].v, GetDynamic(x[2]))))
              /\ x[1].tag = "All" =>
                    TyEq(last.res, IF GetDynamic(x[2]) = "" THEN Ty_Simple("All")
                                   ELSE Ty_Dynamic(GetDynamic(x[2])))

C22_Witness ==
    /\ last.op = "union"
    /\ last.lhs.tag = "All"
    /\ last.rhs.tag = "Builtin" /\ GetDynamic(last.rhs) = "Oops"
    /\ TyEq(last.res, Ty_Dynamic("Oops"))

\* Unioned::from(&lhs).simplify() on the left operand drawn
TakeFromSimplify ==
    /\ calls < MaxValueCalls
    /\ LET from == UnionedFrom(last.lhs)
           res == IF from.panic # "" THEN Ty_Panic(from.panic) ELSE UnionedSimplify(from.u)
       IN  ValueStep(ValCall("simplify", last.lhs, last.rhs, res, from.panic = "", <<>>))

\* C23 (as stated): for every type that is not a Union, expanding it and
\* simplifying the expansion returns a type equal to it and does not panic.
C23_Original ==
    (last.op = "simplify" /\ last.lhs.tag # "Union") => (last.ok /\ TyEq(last.res, last.lhs))

\* C23 (amended): for a type that is not a Union, expanding it and simplifying
\* the expansion looks through one attribute: it panics if the type below is
\* Dynamic, the top type or attributed again, and otherwise returns a type equal
\* to the type below, which is the type itself exactly when it has no attribute.
C23_Amended ==
    (last.op = "simplify" /\ last.lhs.tag # "Union") =>
        LET base == IF last.lhs.tag = "Builtin" THEN last.lhs.inner[1] ELSE last.lhs
        IN  IF base.tag \in {"Dynamic", "All", "Builtin"}
            THEN ~last.ok /\ last.res.tag = "panic"
            ELSE /\ last.ok
                 /\ TyEq(last.res, base)
                 /\ TyEq(last.res, last.lhs) <=> last.lhs.tag # "Builtin"

C23_Witness ==
    /\ last.op = "simplify"
    /\ last.lhs.tag = "Class"
    /\ last.ok /\ TyEq(last.res, last.lhs)

\* -------------------------------------------- Unioned::simplify (ty/union.rs)

\* number of simplify calls on one Unioned in one behaviour of SpecUnioned
MaxSimplifyCalls == 1

\* the Unioned values simplify is applied to: every combination of the simple
\* tags nil, true and false, of no numbers, 3, 3|4, integer and the literal sets
\* T::ints builds of no and of one integer, of no strings
\* and string, of no table and table, of no function and function, of no class,
\* one class and two classes, and of no type variable and one
Unioneds ==
    {Unioned(simple, numbers, strings, tables, functions, classes, tvar) :
        simple \in SUBSET {"nil", "true", "false"},
        numbers \in {NoLit, Lit("One", {3}), Lit("Some", {3, 4}), Lit("Int", {}),
                     Lit("Some", {}), Lit("Some", {3})},
        strings \in {NoLit, Lit("All", {})},
        tables \in {"None", "All"},
        functions \in {"None", "All"},
        classes \in {{}, {<<"Instance", 0>>}, {<<"Instance", 0>>, <<"Prototype", 0>>}},
        tvar \in {-1, 0}}

\* u.simplify() on the Unioned drawn
TakeSimplify ==
    /\ calls < MaxSimplifyCalls
    /\ ValueStep(ValCall("simplify", last.lhs, last.rhs, UnionedSimplify(last.lhs.un), TRUE, <<>>))

InitUnioned ==
    /\ next_tvar = 1
    /\ tvar_sub = NewConstraints
    /\ tvar_sup = NewConstraints
    /\ tvar_eq = NewConstraints
    /\ next_mark = 0
    /\ mark_infos = [m \in Marks |-> NoMarkEntry]
    /\ calls = 0
    /\ \E u \in Unioneds :
          last = ValCall("none", Ty_Union(u), Ty_Simple("None"), Ty_Simple("None"), TRUE, <<>>)
    /\ hist = NoHist
    /\ globals = NewNames
    /\ scopes = <<NewScope("env", 0)>>
    /\ lexer = NoLexer
    /\ visit = NoVisit

NextUnioned == TakeSimplify

SpecUnioned == InitUnioned /\ [][NextUnioned]_vars

\* the number of categories of a Unioned that are not empty
Categories(u) ==
    Cardinality({c \in {"simple", "numbers", "strings", "tables", "functions", "classes", "tvar"} :
        CASE c = "simple"    -> u.simple # {}
          [] c = "numbers"   -> u.numbers.k # "None"
          [] c = "strings"   -> u.strings.k # "None"
          [] c = "tables"    -> u.tables # "None"
          [] c = "functions" -> u.functions # "None"
          [] c = "classes"   -> u.classes # {}
          [] c = "tvar"      -> u.tvar # -1})

\* the number of members of a Unioned: nil, the booleans it holds (as one),
\* thread, userdata, the numbers or each number literal, the strings or each
\* string literal, the table, the function, each class and the type variable
Members(u) ==
    LET literals(l) == IF l.k = "None" THEN 0
                       ELSE IF l.k \in {"One", "Some"} THEN Cardinality(l.set) ELSE 1
    IN  Cardinality(u.simple \ {"true", "false"})
          + (IF u.simple \cap {"true", "false"} # {} THEN 1 ELSE 0)
          + literals(u.numbers) + literals(u.strings)
          + (IF u.tables # "None" THEN 1 ELSE 0)
          + (IF u.functions # "None" THEN 1 ELSE 0)
          + Cardinality(u.classes)
          + (IF u.tvar # -1 THEN 1 ELSE 0)

\* C24 (as stated): simplify returns a Union only if two or more categories of
\* the Unioned are not empty, a non-union type if exactly one is, and the bottom
\* type if none is.
C24_Original ==
    last.op = "simplify" =>
        LET n == Categories(last.lhs.un)
        IN  /\ last.res.tag = "Union" => n >= 2
            /\ n = 1 => last.res.tag \notin {"Union", "None"}
            /\ n = 0 => last.res.tag = "None"

\* C24 (amended): simplify returns the Unioned as a Union exactly when it has
\* two or more members; with one member it returns a non-union type that has
\* that member and no other; with none, the bottom type.
C24_Amended ==
    last.op = "simplify" =>
        LET u == last.lhs.un
            n == Members(u)
        IN  /\ n >= 2 <=> last.res.tag = "Union"
            /\ last.res.tag = "Union" => last.res.un = u
            /\ n = 1 => /\ last.res.tag \notin {"Union", "None"}
                        /\ UnionedVisit(UnionedFrom(last.res).u) = UnionedVisit(u)
            /\ n = 0 <=> last.res.tag = "None"

C24_Witness ==
    /\ last.op = "simplify"
    /\ Categories(last.lhs.un) = 1
    /\ Members(last.lhs.un) = 2
    /\ last.res.tag = "Union"

\* -------------------------------------------- assert_sub (ty/value.rs, ty/union.rs)

\* the greatest number of calls on the TypeContext that succeed before one fails
MaxCtxOk == 2

\* CheckResult<()> of an assertion, with the calls made on the TypeContext
SubRes(ok, ctx) == [ok |-> ok, ctx |-> ctx]
SubOk == SubRes(TRUE, <<>>)
SubErr == SubRes(FALSE, <<>>)
SubOf(b) == SubRes(b, <<>>)

\* a call on the TypeContext; it returns Ok while `fuel` lasts
CtxCall(name, tv, ty, fuel) == SubRes(fuel > 0, << <<name, tv, ty>> >>)

\* Lattice for TVar :: assert_sub and assert_eq: a call on the context
TVarAssertSub(a, b, fuel) == CtxCall("assert_tvar_sub_tvar", a, Ty_TVar(b), fuel)
TVarAssertEq(a, b, fuel) == CtxCall("assert_tvar_eq_tvar", a, Ty_TVar(b), fuel)

\* Builtin::needs_subtype
NeedsSubtype(b) == b = "_Subtype"

\* TypeContext::is_subclass_of over the classes 0 and 1, 1 a subclass of 0
IsSubclassOf(a, b) == a = b \/ (a = 1 /\ b = 0)

\* assert_sub of Option<Numbers> and of Option<Strings>
LitSub(a, b) ==
    IF a.k = "None" THEN TRUE
    ELSE IF b.k = "None" THEN FALSE
    ELSE IF b.k = "All" THEN TRUE
    ELSE IF a.k = "All" THEN FALSE
    ELSE IF b.k = "Int" THEN TRUE
    ELSE IF a.k = "Int" THEN FALSE
    ELSE a.set \subseteq b.set

\* assert_sub of Option<Tables> over None, Empty and All, and of
\* Option<Functions> over None and All
OptSub(a, b) == a = "None" \/ (b # "None" /\ (a = "Empty" \/ b = "All"))

\* the pairs of the arms of T::assert_sub that compare two variants without data
SimpleSub ==
    {<<"Nil", "Nil">>, <<"Boolean", "Boolean">>, <<"True", "Boolean">>, <<"True", "True">>,
     <<"False", "Boolean">>, <<"False", "False">>, <<"Thread", "Thread">>,
     <<"UserData", "UserData">>, <<"Number", "Number">>, <<"Integer", "Number">>,
     <<"Int", "Number">>, <<"Integer", "Integer">>, <<"Int", "Integer">>,
     <<"String", "String">>, <<"Str", "String">>}

\* Lattice for Unioned :: assert_sub
UnionedAssertSub(a, b, fuel) ==
    LET count(u) == (IF u.tables # "None" THEN 1 ELSE 0)
                      + (IF u.functions # "None" THEN 1 ELSE 0)
                      + (IF u.tvar # -1 THEN 1 ELSE 0)
    IN  IF ~(a.simple \subseteq b.simple) THEN SubErr
        ELSE IF ~LitSub(a.numbers, b.numbers) THEN SubErr
        ELSE IF ~LitSub(a.strings, b.strings) THEN SubErr
        ELSE IF count(a) > 1 THEN SubErr
        ELSE IF count(b) > 1 THEN SubErr
        ELSE IF ~OptSub(a.tables, b.tables) THEN SubErr
        ELSE IF ~OptSub(a.functions, b.functions) THEN SubErr
        ELSE IF ~(a.classes \subseteq b.classes) THEN SubErr
        ELSE IF a.tvar # -1 /\ b.tvar # -1
             THEN TVarAssertSub(a.tvar, b.tvar, fuel)
        ELSE IF a.tvar # -1 THEN SubErr
        ELSE SubOk

\* Lattice<Unioned> for T :: assert_sub
TAssertSubUnioned(t, other, fuel) ==
    CASE t.tag \in {"Dynamic", "None"} -> SubOk
      [] t.tag = "Nil"      -> SubOf("nil" \in other.simple)
      [] t.tag = "Boolean"  -> SubOf({"true", "false"} \subseteq other.simple)
      [] t.tag = "True"     -> SubOf("true" \in other.simple)
      [] t.tag = "False"    -> SubOf("false" \in other.simple)
      [] t.tag = "Thread"   -> SubOf("thread" \in other.simple)
      [] t.tag = "UserData" -> SubOf("userdata" \in other.simple)
      [] t.tag = "Number"   -> SubOf(other.numbers.k = "All")
      [] t.tag = "Integer"  -> SubOf(other.numbers.k \in {"All", "Int"})
      [] t.tag = "Int"      -> SubOf(\/ other.numbers.k \in {"All", "Int"}
                                     \/ other.numbers.k \in {"Some", "One"} /\ t.n \in other.numbers.set)
      [] t.tag = "String"   -> SubOf(other.strings.k = "All")
      [] t.tag = "Str"      -> SubOf(\/ other.strings.k = "All"
                                     \/ other.strings.k \in {"Some", "One"} /\ t.v \in other.strings.set)
      [] t.tag = "Tables"   -> SubOf(other.tables # "None" /\ OptSub(t.v, other.tables))
      [] t.tag = "Functions" -> SubOf(other.functions # "None" /\ OptSub(t.v, other.functions))
      [] t.tag = "Class"    -> SubOf(<<t.v, t.n>> \in other.classes)
      [] t.tag = "TVar"     -> IF other.tvar # -1 THEN SubErr
                               ELSE CtxCall("assert_tvar_sub", t.n, Ty_Union(other), fuel)
      [] t.tag = "Union"    -> UnionedAssertSub(t.un, other, fuel)
      [] OTHER              -> SubErr

\* the guard of the arm of T::assert_sub for a union below a type variable,
\* without its condition on the union
WholeArm_AnyUnion(a, b) == a.tag = "Union" /\ b.tag = "TVar"

\* the guard of the arm of T::assert_sub for a union below a type variable:
\* (&T::Union(ref a), &T::TVar(b)) if a.tvar.is_none()
WholeArm(a, b) == a.tag = "Union" /\ b.tag = "TVar" /\ a.un.tvar = -1

\* the arms of T::assert_sub for Dynamic, the top and the bottom type, with the
\* arm (_, &T::None) ahead of the arm (&T::None, _)
ExtremeArms_BottomLast(a, b) ==
    IF a.tag = "Dynamic" \/ b.tag = "Dynamic" THEN "ok"
    ELSE IF b.tag = "All" THEN "ok"
    ELSE IF b.tag = "None" THEN "err"
    ELSE IF a.tag = "None" THEN "ok"
    ELSE ""

\* the arms of T::assert_sub for Dynamic, the top and the bottom type, in the
\* order of the match: "ok" for true, "err" for false, "" when none of them matches
ExtremeArms(a, b) ==
    IF a.tag = "Dynamic" \/ b.tag = "Dynamic" THEN "ok"
    ELSE IF b.tag = "All" THEN "ok"
    ELSE IF a.tag = "None" THEN "ok"
    ELSE IF b.tag = "None" THEN "err"
    ELSE ""

\* Lattice<T> for T :: assert_sub; the arms in the order of the match
RECURSIVE AssertSub(_, _, _), VisitSub(_, _, _)
AssertSub(a, b, fuel) ==
    IF a.tag = "Builtin" /\ b.tag = "Builtin"
    THEN IF (NeedsSubtype(a.v) \/ NeedsSubtype(b.v)) /\ a.v # b.v THEN SubErr
         ELSE AssertSub(a.inner[1], b.inner[1], fuel)
    ELSE IF a.tag = "Builtin" THEN AssertSub(a.inner[1], b, fuel)
    ELSE IF b.tag = "Builtin"
    THEN IF NeedsSubtype(b.v) THEN SubErr ELSE AssertSub(a, b.inner[1], fuel)
    ELSE IF ExtremeArms(a, b) # "" THEN SubOf(ExtremeArms(a, b) = "ok")
    ELSE IF <<a.tag, b.tag>> \in SimpleSub THEN SubOk
    ELSE IF a.tag = "Int" /\ b.tag = "Int" THEN SubOf(a.n = b.n)
    ELSE IF a.tag = "Str" /\ b.tag = "Str" THEN SubOf(a.v = b.v)
    ELSE IF a.tag = "Tables" /\ b.tag = "Tables" THEN SubOf(OptSub(a.v, b.v))
    ELSE IF a.tag = "Functions" /\ b.tag = "Functions" THEN SubOf(OptSub(a.v, b.v))
    ELSE IF a.tag = "Class" /\ b.tag = "Class" /\ a.v = "Instance" /\ b.v = "Instance"
    THEN SubOf(IsSubclassOf(a.n, b.n))
    ELSE IF a.tag = "Union" /\ b.tag = "Union" THEN UnionedAssertSub(a.un, b.un, fuel)
    ELSE IF WholeArm(a, b)
    THEN CtxCall("assert_tvar_sup", b.n, a, fuel)
    ELSE IF a.tag = "Union" THEN VisitSub(UnionedVisit(a.un), b, fuel)
    ELSE IF b.tag = "Union" THEN TAssertSubUnioned(a, b.un, fuel)
    ELSE IF a.tag = "TVar" /\ b.tag = "TVar"
    THEN TVarAssertSub(a.n, b.n, fuel)
    ELSE IF b.tag = "TVar" THEN CtxCall("assert_tvar_sup", b.n, a, fuel)
    ELSE IF a.tag = "TVar" THEN CtxCall("assert_tvar_sub", a.n, b, fuel)
    ELSE SubErr

\* a.visit(|i| i.assert_sub(b, ctx)): the members in turn, up to the first Err
VisitSub(members, b, fuel) ==
    IF members = <<>> THEN SubOk
    ELSE LET first == AssertSub(Head(members), b, fuel)
         IN  IF ~first.ok THEN first
             ELSE LET rest == VisitSub(Tail(members), b, fuel - Len(first.ctx))
                  IN  SubRes(rest.ok, first.ctx \o rest.ctx)

\* lhs.assert_sub(&rhs, ctx) on the operands drawn, on a context of which the
\* first `fuel` calls succeed
TakeAssertSub ==
    /\ calls < MaxValueCalls
    /\ \E fuel \in 0 .. MaxCtxOk :
          LET r == AssertSub(last.lhs, last.rhs, fuel)
          IN  ValueStep(ValCall("assert_sub", last.lhs, last.rhs, Ty_Simple("None"), r.ok, r.ctx))

\* the ground types: no type variable in them
GroundTypes == {t \in ValueTypes : GetTVar(t) = -1}

\* lhs <: rhs succeeds, for ground types
Sub(lhs, rhs) == AssertSub(lhs, rhs, 0).ok

\* C25: assert_sub(T, T) succeeds for every ground type T.
C25_Reflexive ==
    (last.op = "assert_sub" /\ last.lhs \in GroundTypes /\ last.rhs = last.lhs) => last.ok

\* C26 (as stated): if T <: U and U <: V succeed for ground types T, U and V,
\* then T <: V succeeds.
C26_Transitive ==
    (last.op = "assert_sub" /\ last.ok /\ last.lhs \in GroundTypes /\ last.rhs \in GroundTypes)
        => \A v \in GroundTypes : Sub(last.rhs, v) => Sub(last.lhs, v)

\* a type that carries, at any depth of its attributes, one that needs subtyping
RECURSIVE HasSubtypeAttr(_)
HasSubtypeAttr(t) ==
    t.tag = "Builtin" /\ (NeedsSubtype(t.v) \/ HasSubtypeAttr(t.inner[1]))

\* C27 (as stated): Dynamic <: X, X <: Dynamic, None <: X and X <: Top succeed
\* for every X and make no call on the context.
C27_Original ==
    (last.op = "assert_sub"
        /\ (last.lhs.tag \in {"Dynamic", "None"} \/ last.rhs.tag \in {"Dynamic", "All"}))
        => (last.ok /\ last.ctx = <<>>)

\* C27 (amended): X <: Dynamic and X <: Top succeed for every X; Dynamic <: X
\* and None <: X succeed exactly when no attribute of X needs subtyping; none of
\* these makes a call on the context.
C27_Amended ==
    last.op = "assert_sub" =>
        /\ last.rhs.tag \in {"Dynamic", "All"} => (last.ok /\ last.ctx = <<>>)
        /\ last.lhs.tag \in {"Dynamic", "None"} =>
              /\ last.ok <=> ~HasSubtypeAttr(last.rhs)
              /\ last.ctx = <<>>

C27_Witness ==
    /\ last.op = "assert_sub"
    /\ last.lhs.tag = "None"
    /\ last.rhs.tag = "Builtin" /\ last.rhs.v = "_NoSubtype" /\ last.rhs.inner[1].tag = "TVar"
    /\ last.ok /\ last.ctx = <<>>

\* -------------------------------------------- assert_eq (ty/value.rs, ty/union.rs)

\* assert_eq of Option<Numbers>, Option<Strings>, Option<Tables> and
\* Option<Functions>: both None, or both Some and the same
LatOptEq(a, b) == a = b

\* Lattice for Unioned :: assert_eq
UnionedAssertEq(a, b, fuel) ==
    LET none(u) == /\ u.simple = {} /\ u.numbers.k = "None" /\ u.strings.k = "None"
                   /\ u.tables = "None" /\ u.functions = "None" /\ u.classes = {}
    IN  IF a.tvar # -1 /\ none(a) /\ b.tvar # -1 /\ none(b)
        THEN TVarAssertEq(a.tvar, b.tvar, fuel)
        ELSE IF a.tvar # -1 /\ none(a) THEN CtxCall("assert_tvar_eq", a.tvar, Ty_Union(b), fuel)
        ELSE IF b.tvar # -1 /\ none(b) THEN CtxCall("assert_tvar_eq", b.tvar, Ty_Union(a), fuel)
        ELSE IF a.tvar # -1 \/ b.tvar # -1 THEN SubErr
        ELSE IF a.simple # b.simple THEN SubErr
        ELSE IF ~LatOptEq(a.numbers, b.numbers) THEN SubErr
        ELSE IF ~LatOptEq(a.strings, b.strings) THEN SubErr
        ELSE IF ~LatOptEq(a.tables, b.tables) THEN SubErr
        ELSE IF ~LatOptEq(a.functions, b.functions) THEN SubErr
        ELSE SubOf(a.classes = b.classes)

\* Lattice<Unioned> for T :: assert_eq
TAssertEqUnioned(t, other, fuel) ==
    IF t.tag = "Dynamic" THEN SubOk
    ELSE IF t.tag = "Union" THEN UnionedAssertEq(t.un, other, fuel)
    ELSE SubErr

\* Lattice<T> for T :: assert_eq; the arms in the order of the match
RECURSIVE AssertEq(_, _, _)
AssertEq(a, b, fuel) ==
    IF a.tag = "Builtin" /\ b.tag = "Builtin"
    THEN IF (NeedsSubtype(a.v) \/ NeedsSubtype(b.v)) /\ a.v # b.v THEN SubErr
         ELSE AssertEq(a.inner[1], b.inner[1], fuel)
    ELSE IF a.tag = "Builtin"
    THEN IF NeedsSubtype(a.v) THEN SubErr ELSE AssertEq(a.inner[1], b, fuel)
    ELSE IF b.tag = "Builtin"
    THEN IF NeedsSubtype(b.v) THEN SubErr ELSE AssertEq(a, b.inner[1], fuel)
    ELSE IF a.tag = "Dynamic" \/ b.tag = "Dynamic" THEN SubOk
    ELSE IF a.tag = "All" \/ b.tag = "All" THEN SubOk
    ELSE IF a.tag = "None" THEN SubOk
    ELSE IF b.tag = "None" THEN SubErr
    ELSE IF a.tag = b.tag /\ a.tag \in {"Nil", "Boolean", "True", "False", "Thread", "UserData",
                                        "Number", "Integer", "String"} THEN SubOk
    ELSE IF a.tag = "Int" /\ b.tag = "Int" THEN SubOf(a.n = b.n)
    ELSE IF a.tag = "Str" /\ b.tag = "Str" THEN SubOf(a.v = b.v)
    ELSE IF a.tag = "Tables" /\ b.tag = "Tables" THEN SubOf(LatOptEq(a.v, b.v))
    ELSE IF a.tag = "Functions" /\ b.tag = "Functions" THEN SubOf(LatOptEq(a.v, b.v))
    ELSE IF a.tag = "Class" /\ b.tag = "Class" THEN SubOf(a.v = b.v /\ a.n = b.n)
    ELSE IF a.tag = "TVar" /\ b.tag = "TVar" THEN TVarAssertEq(a.n, b.n, fuel)
    ELSE IF b.tag = "TVar" THEN CtxCall("assert_tvar_eq", b.n, a, fuel)
    ELSE IF a.tag = "TVar" THEN CtxCall("assert_tvar_eq", a.n, b, fuel)
    ELSE IF b.tag = "Union" THEN TAssertEqUnioned(a, b.un, fuel)
    ELSE SubErr

\* lhs.assert_eq(&rhs, ctx) on the operands drawn, on a context of which the
\* first `fuel` calls succeed
TakeAssertEq ==
    /\ calls < MaxValueCalls
    /\ \E fuel \in 0 .. MaxCtxOk :
          LET r == AssertEq(last.lhs, last.rhs, fuel)
          IN  ValueStep(ValCall("assert_eq", last.lhs, last.rhs, Ty_Simple("None"), r.ok, r.ctx))

\* t is the type `of` under the attribute b
Wraps(t, b, of) == t.tag = "Builtin" /\ t.v = b /\ t.inner[1] = of

\* C28: for every ground type T without an attribute, _Subtype(T) <: T and
\* _Subtype(T) <: _Subtype(T) succeed, T <: _Subtype(T) fails and _Subtype(T) = T
\* fails in both directions; _NoSubtype(T) and T are subtypes of and equal to
\* each other; every check between a _Subtype(..) and a _NoSubtype(..) fails.
C28_Attributes ==
    LET l == last.lhs
        r == last.rhs
        plain(t) == t.tag # "Builtin" /\ GetTVar(t) = -1
    IN  /\ (last.op = "assert_sub" /\ plain(r) /\ Wraps(l, "_Subtype", r)) => last.ok
        /\ (last.op = "assert_sub" /\ l = r /\ l.tag = "Builtin" /\ l.v = "_Subtype"
                /\ plain(l.inner[1])) => last.ok
        /\ (last.op = "assert_sub" /\ plain(l) /\ Wraps(r, "_Subtype", l)) => ~last.ok
        /\ (last.op = "assert_eq" /\ plain(r) /\ Wraps(l, "_Subtype", r)) => ~last.ok
        /\ (last.op = "assert_eq" /\ plain(l) /\ Wraps(r, "_Subtype", l)) => ~last.ok
        /\ (last.op \in {"assert_sub", "assert_eq"} /\ plain(r) /\ Wraps(l, "_NoSubtype", r)) => last.ok
        /\ (last.op \in {"assert_sub", "assert_eq"} /\ plain(l) /\ Wraps(r, "_NoSubtype", l)) => last.ok
        /\ (last.op \in {"assert_sub", "assert_eq"} /\ l.tag = "Builtin" /\ r.tag = "Builtin"
                /\ {l.v, r.v} = {"_Subtype", "_NoSubtype"}) => ~last.ok

\* the right operands of the arm that visits a left union: neither an attribute,
\* Dynamic, the top or the bottom type (matched by earlier arms), nor a union
VisitArmRhs(b) == b.tag \notin {"Builtin", "Dynamic", "All", "None", "Union"}

\* C29 (as stated): a left union that holds a type variable is not split into
\* assertions on its members, so no call on the context is made for a member;
\* a union below a bare type variable v is passed whole in one
\* assert_tvar_sup(v, union).
C29_Original ==
    (last.op = "assert_sub" /\ last.lhs.tag = "Union" /\ VisitArmRhs(last.rhs)) =>
        /\ last.rhs.tag = "TVar" => last.ctx = << <<"assert_tvar_sup", last.rhs.n, last.lhs>> >>
        /\ (last.lhs.un.tvar # -1 /\ last.rhs.tag # "TVar") => last.ctx = <<>>

\* C29 (amended): a left union without a type variable below a bare type
\* variable v is passed whole in one assert_tvar_sup(v, union); every other
\* left union below a type that is not a union is split, its members asserted
\* in turn up to the first failure: below a type variable v with one call per
\* member, assert_tvar_sup(v, member) or assert_tvar_sub_tvar(w, v) for the
\* member w; below another type with assert_tvar_sub(w, type) once the other
\* members are found below it.
C29_Amended ==
    (last.op = "assert_sub" /\ last.lhs.tag = "Union" /\ VisitArmRhs(last.rhs)) =>
        LET members == UnionedVisit(last.lhs.un)
            w == last.lhs.un.tvar
            plain == {i \in DOMAIN members : members[i].tag # "TVar"}
            below(m) == IF m.tag = "TVar" THEN <<"assert_tvar_sub_tvar", m.n, last.rhs>>
                        ELSE <<"assert_tvar_sup", last.rhs.n, m>>
            each == [i \in DOMAIN members |-> below(members[i])]
        IN  IF last.rhs.tag = "TVar" /\ w = -1
            THEN last.ctx = << <<"assert_tvar_sup", last.rhs.n, last.lhs>> >>
            ELSE IF last.rhs.tag = "TVar"
            THEN /\ Len(last.ctx) \in 1 .. Len(each)
                 /\ last.ctx = SubSeq(each, 1, Len(last.ctx))
                 /\ last.ok => last.ctx = each
            ELSE IF \A i \in plain : Sub(members[i], last.rhs)
            THEN IF w = -1 THEN last.ok /\ last.ctx = <<>>
                 ELSE last.ctx = << <<"assert_tvar_sub", w, last.rhs>> >>
            ELSE ~last.ok /\ last.ctx = <<>>

C29_Witness ==
    /\ last.op = "assert_sub"
    /\ last.lhs.tag = "Union" /\ last.lhs.un.tvar = 0 /\ last.lhs.un.simple = {"nil"}
    /\ last.rhs = Ty_TVar(0)
    /\ last.ok
    /\ last.ctx = << <<"assert_tvar_sup", 0, Ty_Simple("Nil")>>,
                     <<"assert_tvar_sub_tvar", 0, Ty_TVar(0)>> >>

\* -------------------------------------------- operators (check.rs)

\* number of operator checks on one pair of operand types in one behaviour of SpecOp
MaxOpCalls == 1

\* enum BinOp
BinOps == {"Add", "Sub", "Mul", "Div", "Pow", "Mod", "Cat", "Lt", "Le", "Gt", "Ge",
           "Eq", "Ne", "And", "Or"}
Arithmetic == {"Add", "Sub", "Mul", "Div", "Pow", "Mod"}
Comparisons == {"Lt", "Le", "Gt", "Ge"}

\* the operand types the operators are checked on
OpTypes == {T_Dynamic, T_Nil, T_Boolean, T_Number, T_Integer, T_String, T_Table, T_Function}

\* CheckResult<TyInfo>: Ok with the type, or Err
OpOk(ty) == [ok |-> TRUE, ty |-> ty]
OpErr == [ok |-> FALSE, ty |-> NoBound]

\* is_possibly_numeric and is_possibly_stringy
IsPossiblyNumeric(ty) == ty.tag \in {"Number", "Dynamic"}
IsPossiblyStringy(ty) == ty.tag \in {"Number", "String", "Dynamic"}

\* the operand pairs of a comparison, taken as every pair of Number or of String
\* and every pair with a Dynamic
ComparablePairs_AnyDynamic ==
    {<<"Number", "Number">>, <<"String", "String">>}
        \cup {<<l.tag, r.tag>> : l \in {T_Dynamic}, r \in OpTypes}
        \cup {<<l.tag, r.tag>> : l \in OpTypes, r \in {T_Dynamic}}

\* the operand pairs the arm of check_bin_op for Lt, Le, Gt and Ge accepts
ComparablePairs ==
    {<<"Number", "Number">>, <<"Number", "Dynamic">>, <<"String", "String">>,
     <<"String", "Dynamic">>, <<"Dynamic", "Number">>, <<"Dynamic", "String">>,
     <<"Dynamic", "Dynamic">>}

\* Checker::check_bin_op
CheckBinOp(lty, op, rty) ==
    IF op \in Arithmetic
    THEN IF IsPossiblyNumeric(lty) /\ IsPossiblyNumeric(rty) THEN OpOk(T_Number) ELSE OpErr
    ELSE IF op = "Cat"
    THEN IF IsPossiblyStringy(lty) /\ IsPossiblyStringy(rty) THEN OpOk(T_String) ELSE OpErr
    ELSE IF op \in Comparisons
    THEN IF <<lty.tag, rty.tag>> \in ComparablePairs THEN OpOk(T_Boolean) ELSE OpErr
    ELSE IF op \in {"Eq", "Ne"} THEN OpOk(T_Boolean)
    ELSE IF lty.tag = "Nil" THEN OpOk(rty)
    ELSE IF lty.tag = rty.tag /\ lty.tag \in {"Boolean", "Number", "String", "Table", "Function"}
         THEN OpOk(lty)
    ELSE OpOk(T_Dynamic)

\* the record kept in `last` for an operator check
OpCall(op, bin, lhs, rhs, res) == [op |-> op, bin |-> bin, lhs |-> lhs, rhs |-> rhs, res |-> res]

\* check_bin_op(&lhs, op, &rhs) on the operator and the operands drawn
TakeCheckBinOp ==
    /\ calls < MaxOpCalls
    /\ calls' = calls + 1
    /\ last' = OpCall("check_bin_op", last.bin, last.lhs, last.rhs,
                      CheckBinOp(last.lhs, last.bin, last.rhs))
    /\ UNCHANGED <<tvarVars, next_mark, mark_infos, hist, checkVars>>

InitOp ==
    /\ next_tvar = 0
    /\ tvar_sub = NewConstraints
    /\ tvar_sup = NewConstraints
    /\ tvar_eq = NewConstraints
    /\ next_mark = 0
    /\ mark_infos = [m \in Marks |-> NoMarkEntry]
    /\ calls = 0
    /\ \E bin \in BinOps, lhs \in OpTypes, rhs \in OpTypes :
          last = OpCall("none", bin, lhs, rhs, OpErr)
    /\ hist = NoHist
    /\ globals = NewNames
    /\ scopes = <<NewScope("env", 0)>>
    /\ lexer = NoLexer
    /\ visit = NoVisit

NextOp == TakeCheckBinOp

SpecOp == InitOp /\ [][NextOp]_vars

\* C30 (as stated): a comparison returns Boolean if both operands are Number,
\* both are String or at least one is Dynamic, and an error for every other pair.
C30_Original ==
    (last.op = "check_bin_op" /\ last.bin \in Comparisons) =>
        IF \/ last.lhs = T_Number /\ last.rhs = T_Number
           \/ last.lhs = T_String /\ last.rhs = T_String
           \/ last.lhs = T_Dynamic \/ last.rhs = T_Dynamic
        THEN last.res = OpOk(T_Boolean)
        ELSE ~last.res.ok

\* C30 (amended): a comparison returns Boolean if both operands are Number,
\* both are String, or one is Dynamic and the other Number, String or Dynamic,
\* and an error for every other pair.
C30_Amended ==
    (last.op = "check_bin_op" /\ last.bin \in Comparisons) =>
        IF \/ last.lhs = T_Number /\ last.rhs = T_Number
           \/ last.lhs = T_String /\ last.rhs = T_String
           \/ last.lhs = T_Dynamic /\ last.rhs \in {T_Number, T_String, T_Dynamic}
           \/ last.rhs = T_Dynamic /\ last.lhs \in {T_Number, T_String, T_Dynamic}
        THEN last.res = OpOk(T_Boolean)
        ELSE ~last.res.ok

C30_Witness ==
    /\ last.op = "check_bin_op" /\ last.bin = "Lt"
    /\ last.lhs = T_Dynamic /\ last.rhs = T_Nil
    /\ ~last.res.ok

\* -------------------------------------------- numeric for (check.rs)

\* the first expression of a sequence that visit_exp fails on, 0 if none
FirstErr(s, g, exps) ==
    LET bad == {i \in DOMAIN exps : ~VisitSimple(s, g, exps[i]).ok}
    IN  IF bad = {} THEN 0 ELSE CHOOSE i \in bad : \A j \in bad : i <= j

\* S::For: start, end and the optional step are visited, then the loop variable
\* is bound in a scope of its own around the block
VisitForExps(names, bounds) ==
    /\ CheckLive /\ MoreStmts
    /\ \E name \in names, exps \in bounds, block \in 0 .. MaxBlockLen :
          LET call(res) == CheckCall("For", name, Exp("For", "", "", exps), res)
          IN  IF FirstErr(scopes, globals, exps) = 0
              THEN Pass(MakeSubenv(AddLocalVar(MakeSubenv(Begin(scopes), "for", 0),
                                               name, NewTyInfo(T_Number)),
                                   "block", block),
                        globals, call("ok"))
              ELSE Fail(globals, call("err"))

\* the start, end and step expressions of the loops: <<start, end>> or
\* <<start, end, step>>
ForExps == {E_Num, E_Str("s"), E_Table, E_Var("p")}
ForBounds == {<<a, b>> : a \in ForExps, b \in ForExps}
                 \cup {<<a, b, c>> : a \in {E_Num, E_Var("p")}, b \in {E_Num}, c \in ForExps}

NextFor ==
    \/ VisitForExps({"q"}, ForBounds)
    \/ VisitLocal({"p"}, {E_Num, E_Table, E_Var("q")})
    \/ LeaveBlock

SpecFor == InitCheck({NewNames}) /\ [][NextFor]_vars

\* C31: a for statement with a start, end or step expression of a type that is
\* not numeric fails; inside the body the loop variable is an integer; it is
\* bound only while the loop is being visited.
C31_NumericFor ==
    /\ (last.op = "For" /\ last.res = "ok") =>
          /\ \A i \in DOMAIN last.exp.args :
                IsPossiblyNumeric(VisitSimple(scopes, globals, last.exp.args[i]).info.ty)
          /\ GetVar(scopes, globals, last.name) = NewTyInfo(T_Integer)
    /\ GetVar(scopes, globals, "q") # NoInfo => \E i \in DOMAIN scopes : scopes[i].kind = "for"

\* u and v are in the same class of store c
SameClass(c, u, v) == FindRoot(c, u) = FindRoot(c, v)

\* C32: two variables are in the same class of the sub store if and only if
\* they are in the same class of the sup store, after any sequence of calls.
C32_SameClasses ==
    \A u \in Live, v \in Live : SameClass(tvar_sub, u, v) <=> SameClass(tvar_sup, u, v)

\* what a store holds: for every variable its class and the bound of its class
StoreView(c, live) ==
    [v \in live |-> [class |-> {w \in live : SameClass(c, v, w)}, bound |-> BoundOf(c, v)]]

\* C33: a constraint call that returns Err leaves the classes and the bounds
\* of the sub, sup and eq stores as they were before the call.
C33_FailingCallChangesNothing ==
    [][(IsAssert /\ last'.res = "err") =>
          /\ StoreView(tvar_sub', Live) = StoreView(tvar_sub, Live)
          /\ StoreView(tvar_sup', Live) = StoreView(tvar_sup, Live)
          /\ StoreView(tvar_eq', Live) = StoreView(tvar_eq, Live)]_vars

\* C34: a mark that is True stays True and a mark that is False stays False
\* under every later assert_mark_* call that returns, Ok or Err.
C34_DecidedMarksStay ==
    [][last'.res \in {"ok", "err"} =>
          \A m \in LiveMarks :
              KindOf(mark_infos, m) \in {"True", "False"} =>
                  KindOf(mark_infos', m) = KindOf(mark_infos, m)]_vars


\* ------------------------------------------- require of modules that require

\* the number of Checkers that the stack of the process has room for, one
\* inside the visit_exp of the other
MaxDepth == 3

\* require("path") and a call that is no require, as statements S::Void
Require(path) == E_FuncCall("p", <<E_Str(path)>>)
PlainCall == E_FuncCall("p", <<>>)

\* the blocks Options::require_block returns: a module that requires nothing,
\* one that requires itself, and two that require each other; every other path
\* is an error
Loader ==
    [path \in {"e", "s", "m", "n"} |->
        CASE path = "e" -> <<PlainCall>>
          [] path = "s" -> <<Require("s")>>
          [] path = "m" -> <<Require("n"), PlainCall>>
          [] path = "n" -> <<PlainCall, Require("m")>>]

\* a scope together with the statements of its block not yet visited
BlockScope(kind, block) ==
    [names |-> NewNames, kind |-> kind, left |-> Len(block), block |-> block]

\* the statement about to be visited is no longer among the ones left
BeginStmt(s) == [s EXCEPT ![Len(s)].left = @ - 1, ![Len(s)].block = Tail(@)]

\* the Checkers on the stack: the one of Checker::new and one for every
\* require being visited
Depth(s) == Cardinality({i \in DOMAIN s : s[i].kind = "env"})

Visiting ==
    /\ visit.status = "running"
    /\ scopes[Len(scopes)].kind = "block"

\* the chunks handed to Checker::visit
ChunkStmts == {Require(path) : path \in {"e", "s", "m", "x"}} \cup {PlainCall}
Chunks == {<<a>> : a \in ChunkStmts} \cup {<<a, b>> : a \in ChunkStmts, b \in ChunkStmts}

\* Checker::new with `p` bound to the require builtin, and Checker::visit on a
\* chunk, up to its visit_block
InitCycle ==
    /\ next_tvar = 0
    /\ tvar_sub = NewConstraints
    /\ tvar_sup = NewConstraints
    /\ tvar_eq = NewConstraints
    /\ next_mark = 0
    /\ mark_infos = [m \in Marks |-> NoMarkEntry]
    /\ calls = 0
    /\ last = CheckCall("none", "", E_Nil, "ok")
    /\ hist = NoHist
    /\ globals = [NewNames EXCEPT !["p"] = TyInfo(T_Dynamic, "Require")]
    /\ \E chunk \in Chunks :
          scopes = <<BlockScope("env", <<>>), BlockScope("block", chunk)>>
    /\ lexer = NoLexer
    /\ visit = [NoVisit EXCEPT !.status = "running"]

\* visit_stmt on the next S::Void of the block: a call that is no require, a
\* require whose path the loader does not know, or a require that enters
\* visit_block of the loaded block in a Checker of its own
VisitStmt ==
    /\ Visiting
    /\ scopes[Len(scopes)].block # <<>>
    /\ LET exp  == Head(scopes[Len(scopes)].block)
           path == exp.args[1].str
       IN  IF ~IsRequire(scopes, globals, exp)
           THEN Pass(BeginStmt(scopes), globals, CheckCall("Void", "", exp, "ok"))
           ELSE IF path \notin DOMAIN Loader
           THEN Fail(globals, LoadCall("Void", "", exp, path, "err", "err"))
           ELSE /\ Depth(scopes) < MaxDepth
                /\ Pass(Append(Append(BeginStmt(scopes), BlockScope("env", <<>>)),
                               BlockScope("block", Loader[path])),
                        globals, LoadCall("Void", "", exp, path, "ok", "ok"))

\* the require that needs one Checker more than the stack has room for: the
\* process is aborted and Checker::visit never returns
StackOverflow ==
    /\ Visiting
    /\ scopes[Len(scopes)].block # <<>>
    /\ LET exp == Head(scopes[Len(scopes)].block)
       IN  /\ IsRequire(scopes, globals, exp)
           /\ exp.args[1].str \in DOMAIN Loader
           /\ Depth(scopes) >= MaxDepth
           /\ UNCHANGED lexer
           /\ visit' = [visit EXCEPT !.status = "stack overflow"]
           /\ calls' = calls + 1
           /\ last' = LoadCall("Void", "", exp, exp.args[1].str, "ok", "abort")
           /\ UNCHANGED <<tvarVars, next_mark, mark_infos, hist, globals, scopes>>

\* visit_block has visited every statement of its block and returns Ok
ReturnFromBlock ==
    /\ Visiting
    /\ scopes[Len(scopes)].block = <<>>
    /\ scopes' = Drop(SubSeq(scopes, 1, Len(scopes) - 1))
    /\ UNCHANGED lexer
    /\ visit' = [visit EXCEPT !.status = IF Len(scopes') = 1 THEN "ok" ELSE @]
    /\ calls' = calls + 1
    /\ last' = CheckCall("leave", "", E_Nil, "ok")
    /\ UNCHANGED <<tvarVars, next_mark, mark_infos, hist, globals>>

NextCycle ==
    \/ VisitStmt
    \/ StackOverflow
    \/ ReturnFromBlock

\* the checker runs on one thread that is never suspended for good
SpecCycle == InitCycle /\ [][NextCycle]_vars /\ WF_vars(NextCycle)

\* C35: Checker::visit returns, with Ok or Err, for every chunk when the
\* loader returns a finite block for every path, modules that require
\* themselves or each other included.
C35_VisitReturns == <>(visit.status \in {"ok", "err"})


\* C36: for types a and b without type variables, assert_eq(a, b) succeeds if
\* and only if assert_eq(b, a) succeeds.
C36_Symmetric ==
    (last.op = "assert_eq" /\ last.lhs \in GroundTypes /\ last.rhs \in GroundTypes) =>
        (last.ok <=> AssertEq(last.rhs, last.lhs, 0).ok)


\* ------------------------------------------- S::Local with several names

\* the loop over the expressions of S::Local from the i-th on: each one is
\* visited in the scopes the earlier ones have left, and its name, if there is
\* one, is added before the next expression is visited
RECURSIVE LocalExps(_, _, _, _, _)
LocalExps(s, g, names, exps, i) ==
    IF i > Len(exps) THEN [ok |-> TRUE, scopes |-> s]
    ELSE LET info == VisitSimple(s, g, exps[i])
         IN  IF ~info.ok THEN [ok |-> FALSE, scopes |-> s]
             ELSE LocalExps(IF i <= Len(names) THEN AddLocalVar(s, names[i], info.info) ELSE s,
                            g, names, exps, i + 1)

\* the loop over names[exps.len()..]: every name left is bound to nil
RECURSIVE LocalRest(_, _, _)
LocalRest(s, names, i) ==
    IF i > Len(names) THEN s
    ELSE LocalRest(AddLocalVar(s, names[i], NewTyInfo(T_Nil)), names, i + 1)

\* the record kept in `last` for an S::Local: the names, the expressions, what
\* visit_exp returns for each expression in the scopes before the statement,
\* and the result
LocalCall(names, exps, pre, res) ==
    [op |-> "Locals", name |-> names, exp |-> Exp("Local", "", "", exps), path |-> "",
     loader |-> "none", pre |-> pre, res |-> res]

\* S::Local
VisitLocals(namess, expss) ==
    /\ CheckLive /\ MoreStmts
    /\ \E names \in namess, exps \in expss :
          LET pre == [i \in DOMAIN exps |-> VisitSimple(Begin(scopes), globals, exps[i])]
              r   == LocalExps(Begin(scopes), globals, names, exps, 1)
          IN  IF r.ok
              THEN Pass(LocalRest(r.scopes, names, Len(exps) + 1), globals,
                        LocalCall(names, exps, pre, "ok"))
              ELSE Fail(globals, LocalCall(names, exps, pre, "err"))

LocalNames == {<<"p">>, <<"p", "q">>, <<"q", "p">>}
LocalOperands == {E_Num, E_Table, E_Var("p"), E_Var("q")}
LocalExpss == {<<>>} \cup {<<a>> : a \in LocalOperands}
                  \cup {<<a, b>> : a \in LocalOperands, b \in LocalOperands}

NextLocal ==
    \/ VisitLocals(LocalNames, LocalExpss)
    \/ VisitDo
    \/ LeaveBlock

SpecLocal == InitCheck({NewNames}) /\ [][NextLocal]_vars

\* C37: after an S::Local that returned Ok every expression was one that
\* visit_exp accepts in the scopes before the statement, every name with an
\* expression is bound to what its expression is there, and every name
\* without an expression is bound to nil.
C37_LocalSeesOuter ==
    (last.op = "Locals" /\ last.res = "ok") =>
        LET names == last.name
            exps  == last.exp.args
        IN  /\ \A i \in DOMAIN exps : last.pre[i].ok
            /\ \A i \in DOMAIN names :
                  GetVar(scopes, globals, names[i]) =
                      IF i <= Len(exps) THEN last.pre[i].info ELSE NewTyInfo(T_Nil)


\* ------------------------------------------------ Partitions on its own

MaxPartCalls == 5
PartElems == {0, 1, 2, 3}

\* the element reached from i by following parents n times, stopping at an
\* element without an entry
RECURSIVE Up(_, _, _)
Up(map, i, n) ==
    IF n = 0 \/ ~map[i].present THEN i ELSE Up(map, map[i].parent, n - 1)

\* where the parent chain of i ends, if it ends at all
RootOf(map, i) == Up(map, i, Cardinality(PartElems))

\* the number of parent links from i to the end of its chain
DepthOf(map, i) ==
    CHOOSE n \in 0 .. Cardinality(PartElems) :
        /\ Up(map, i, n) = RootOf(map, i)
        /\ \A k \in 0 .. (n - 1) : Up(map, i, k) # RootOf(map, i)

\* the class of i: the elements whose chain ends where the chain of i ends
PartClass(map, i) == {j \in PartElems : RootOf(map, j) = RootOf(map, i)}

\* the record kept in `last` by a step on the partitions: the method, its
\* arguments, the map before the call and the value returned
PartCall(op, a, b, pre, res) == [op |-> op, a |-> a, b |-> b, pre |-> pre, res |-> res]

PartStep(map, call) ==
    /\ calls < MaxPartCalls
    /\ tvar_sub' = map
    /\ calls' = calls + 1
    /\ last' = call
    /\ UNCHANGED <<next_tvar, tvar_sup, tvar_eq, next_mark, mark_infos, hist, checkVars>>

\* Partitions::find on the partitions kept in tvar_sub
PartFind ==
    \E i \in PartElems :
        PartStep(FindMap(tvar_sub, i), PartCall("find", i, -1, tvar_sub, FindRoot(tvar_sub, i)))

\* Partitions::union on the partitions kept in tvar_sub
PartUnion ==
    \E a \in PartElems, b \in PartElems :
        LET u == Union(tvar_sub, a, b)
        IN  PartStep(u.map, PartCall("union", a, b, tvar_sub, u.new))

NextPart == PartFind \/ PartUnion

SpecPart == Init /\ [][NextPart]_vars

\* C38: every parent chain ends at a self-parented root or at an element
\* without an entry, which is its own root; the height of every tree is at
\* most the rank of its root; find(i) returns the root of i and changes no
\* class; union(a, b) returns the root of the merged class and merges the
\* classes of a and b and no other.
C38_Forest ==
    /\ \A i \in PartElems :
          LET r == RootOf(tvar_sub, i)
          IN  /\ tvar_sub[r].present => tvar_sub[r].parent = r
              /\ ~tvar_sub[i].present => r = i
              /\ DepthOf(tvar_sub, i) <= tvar_sub[r].rank
    /\ last.op = "find" =>
          /\ last.res = RootOf(last.pre, last.a)
          /\ last.res = RootOf(tvar_sub, last.a)
          /\ \A i \in PartElems : PartClass(tvar_sub, i) = PartClass(last.pre, i)
    /\ last.op = "union" =>
          /\ \A i \in PartClass(last.pre, last.a) \cup PartClass(last.pre, last.b) :
                /\ PartClass(tvar_sub, i) =
                       PartClass(last.pre, last.a) \cup PartClass(last.pre, last.b)
                /\ RootOf(tvar_sub, i) = last.res
          /\ \A i \in PartElems \ (PartClass(last.pre, last.a) \cup PartClass(last.pre, last.b)) :
                PartClass(tvar_sub, i) = PartClass(last.pre, i)

\* C38 witness: a union has merged two classes of two elements each into a
\* tree of height two, and a find has then compressed the path of its deepest
\* element
C38_Witness ==
    /\ last.op = "find"
    /\ DepthOf(last.pre, last.a) = 2
    /\ DepthOf(tvar_sub, last.a) = 1
    /\ Cardinality(PartClass(tvar_sub, last.a)) = 4


\* ------------------------------------------ translate_u16 (kailua_syntax)

MaxU16Calls == 1

\* a & b, a | b, a << n and a >> n on u32, and `as u8`; the operands are 16-bit
\* units and masks of at most 20 bits, so that no result reaches 2^32
RECURSIVE BitAnd(_, _)
BitAnd(a, b) ==
    IF a = 0 \/ b = 0 THEN 0
    ELSE ((a % 2) * (b % 2)) + (2 * BitAnd(a \div 2, b \div 2))
RECURSIVE BitOr(_, _)
BitOr(a, b) ==
    IF a = 0 THEN b ELSE IF b = 0 THEN a
    ELSE (IF a % 2 = 1 \/ b % 2 = 1 THEN 1 ELSE 0) + (2 * BitOr(a \div 2, b \div 2))
Shl(a, n) == a * (2 ^ n)
Shr(a, n) == a \div (2 ^ n)
AsU8(a) == a % 256

\* SourceData as Lexer::read returns it: Some(U8(v)), Some(U16(v)) or None
SourceData(k, v) == [k |-> k, v |-> v]

\* diag::Result<()> of translate_u16 with the bytes handed to f
U16Res(res, bytes) == [res |-> res, bytes |-> bytes]

\* the code point translate_u16 computes from a high surrogate c and a low
\* surrogate c2: `as` binds tighter than `<<`, and `<<` tighter than `&`
PairCodePoint(c, c2) ==
    65536 + BitOr(BitAnd(c, Shl(1023, 10)), BitAnd(c2, 1023))

\* Lexer::translate_u16 on the unit c, with `next` what self.read() returns
TranslateU16(c, next) ==
    IF c \in 55296 .. 56319                           \* 0xd800...0xdbff
    THEN IF next.k = "U16" /\ next.v \in 56320 .. 57343   \* 0xdc00...0xdfff
         THEN LET cp == PairCodePoint(c, next.v)
              IN  U16Res("ok", <<BitOr(240, AsU8(BitAnd(Shr(cp, 18), 7))),
                                 BitOr(128, AsU8(BitAnd(Shr(cp, 12), 63))),
                                 BitOr(128, AsU8(BitAnd(Shr(cp, 6), 63))),
                                 BitOr(128, AsU8(BitAnd(cp, 63)))>>)
         ELSE U16Res("fatal", <<>>)
    ELSE IF c \in 56320 .. 57343 THEN U16Res("fatal", <<>>)
    ELSE IF c \in 0 .. 127 THEN U16Res("ok", <<AsU8(c)>>)
    ELSE IF c \in 128 .. 2047
    THEN U16Res("ok", <<BitOr(192, AsU8(BitAnd(Shr(c, 6), 31))),
                        BitOr(128, AsU8(BitAnd(c, 63)))>>)
    ELSE U16Res("ok", <<BitOr(224, AsU8(BitAnd(Shr(c, 12), 15))),
                        BitOr(128, AsU8(BitAnd(Shr(c, 6), 63))),
                        BitOr(128, AsU8(BitAnd(c, 63)))>>)

\* the record kept in `last`: the unit, what follows it, and the outcome
U16Call(op, c, next, r) ==
    [op |-> op, c |-> c, next |-> next, res |-> r.res, bytes |-> r.bytes]

\* the 16-bit units drawn: the ends of every range of the match, and
\* surrogates of several planes
Units == {0, 65, 127, 128, 233, 2047, 2048, 8364, 55295,
          55296, 55297, 55350, 55357, 56319, 56320, 56832, 57343, 57344, 65535}
Follows == {SourceData("None", 0), SourceData("U8", 65)}
               \cup {SourceData("U16", v) : v \in {233, 55296, 56319, 56320, 56832, 57343, 57344}}

InitU16 ==
    /\ next_tvar = 0
    /\ tvar_sub = NewConstraints
    /\ tvar_sup = NewConstraints
    /\ tvar_eq = NewConstraints
    /\ next_mark = 0
    /\ mark_infos = [m \in Marks |-> NoMarkEntry]
    /\ calls = 0
    /\ \E c \in Units, next \in Follows : last = U16Call("none", c, next, U16Res("ok", <<>>))
    /\ hist = NoHist
    /\ globals = NewNames
    /\ scopes = <<NewScope("env", 0)>>
    /\ lexer = NoLexer
    /\ visit = NoVisit

\* translate_u16 on the unit and the follower drawn
TakeTranslateU16 ==
    /\ calls < MaxU16Calls
    /\ calls' = calls + 1
    /\ last' = U16Call("translate_u16", last.c, last.next, TranslateU16(last.c, last.next))
    /\ UNCHANGED <<tvarVars, next_mark, mark_infos, hist, checkVars>>

NextU16 == TakeTranslateU16

SpecU16 == InitU16 /\ [][NextU16]_vars

\* the UTF-8 encoding of a code point
Utf8(cp) ==
    IF cp < 128 THEN <<cp>>
    ELSE IF cp < 2048 THEN <<192 + (cp \div 64), 128 + (cp % 64)>>
    ELSE IF cp < 65536
    THEN <<224 + (cp \div 4096), 128 + ((cp \div 64) % 64), 128 + (cp % 64)>>
    ELSE <<240 + (cp \div 262144), 128 + ((cp \div 4096) % 64), 128 + ((cp \div 64) % 64),
           128 + (cp % 64)>>

IsHigh(c) == c \in 55296 .. 56319
IsLow(c) == c \in 56320 .. 57343

\* C40: a high surrogate followed by a low surrogate gives the four UTF-8
\* bytes of 0x10000 + ((hi & 0x3FF) << 10 | (lo & 0x3FF)), any other surrogate
\* a fatal error, and every other unit its UTF-8 encoding.
C40_Transcodes ==
    last.op = "translate_u16" =>
        IF IsHigh(last.c) /\ last.next.k = "U16" /\ IsLow(last.next.v)
        THEN /\ last.res = "ok"
             /\ last.bytes = Utf8(65536 + ((last.c % 1024) * 1024) + (last.next.v % 1024))
        ELSE IF IsHigh(last.c) \/ IsLow(last.c) THEN last.res = "fatal"
        ELSE last.res = "ok" /\ last.bytes = Utf8(last.c)


\* -------------------------------------------------- Lexer (kailua_syntax)

\* the longest input
MaxInput == 6

\* the units of the inputs: `-`, `#`, a line break, a blank and a quote
LexChars == {"-", "#", "n", " ", "q"}

RECURSIVE InputsOf(_)
InputsOf(n) ==
    IF n = 0 THEN {<<>>}
    ELSE InputsOf(n - 1) \cup
         {Append(s, c) : s \in {t \in InputsOf(n - 1) : Len(t) = n - 1}, c \in LexChars}

\* what self.read() returns at position p: the unit, or "" for None
At(bytes, p) == IF p \in DOMAIN bytes THEN bytes[p] ELSE ""

\* scan_while: the position of the first unit from p on that is not in `set`
RECURSIVE ScanWhile(_, _, _)
ScanWhile(bytes, p, set) ==
    IF At(bytes, p) \in set THEN ScanWhile(bytes, p + 1, set) ELSE p

\* diag::Result<Option<Spanned<Tok>>> of next_token with the Lexer it leaves;
\* tok is "None" for Ok(None) and for Err
LexRes(res, tok, l) == [res |-> res, tok |-> tok, lexer |-> l]

\* tok!(..) and tok!(meta: ..)
Tok(tok, l, pos) == LexRes("ok", tok, [l EXCEPT !.pos = pos])
MetaTok(tok, l, pos) == LexRes("ok", tok, [l EXCEPT !.pos = pos, !.meta = TRUE])

\* scan_quoted_string, after the opening quote at p - 1: every unit up to the
\* closing quote is content, a line break included
ScanQuotedString(l, p) ==
    LET close == ScanWhile(l.bytes, p, LexChars \ {"q"})
    IN  IF At(l.bytes, close) = "q" THEN Tok("Str", l, close + 1)
        ELSE LexRes("err", "None", [l EXCEPT !.pos = close])

\* Lexer::next_token
NextToken(l) ==
    LET p == ScanWhile(l.bytes, l.pos, IF l.meta THEN {" "} ELSE {" ", "n"})
        c == At(l.bytes, p)
    IN  CASE c = "q" -> ScanQuotedString(l, p + 1)
          [] c = "-" ->
                IF At(l.bytes, p + 1) # "-" THEN Tok("Dash", l, p + 1)
                ELSE IF At(l.bytes, p + 2) = "#" THEN MetaTok("DashDashHash", l, p + 3)
                ELSE Tok("Comment", l, ScanWhile(l.bytes, p + 2, LexChars \ {"n"}))
          [] c = "#" -> Tok("Hash", l, p + 1)
          [] c = "n" -> Tok("Newline", [l EXCEPT !.meta = FALSE], p + 1)
          [] c = "" ->
                IF l.meta THEN Tok("Newline", [l EXCEPT !.meta = FALSE], p)
                ELSE IF ~l.eof THEN Tok("EOF", [l EXCEPT !.eof = TRUE], p)
                ELSE Tok("None", l, p)

\* the record kept in `last`: the Lexer before the call, the token and the
\* result
LexCall(op, before, tok, res) == [op |-> op, before |-> before, tok |-> tok, res |-> res]

\* Lexer::new on an input
InitLex ==
    /\ next_tvar = 0
    /\ tvar_sub = NewConstraints
    /\ tvar_sup = NewConstraints
    /\ tvar_eq = NewConstraints
    /\ next_mark = 0
    /\ mark_infos = [m \in Marks |-> NoMarkEntry]
    /\ calls = 0
    /\ last = LexCall("none", NoLexer, "None", "ok")
    /\ hist = NoHist
    /\ globals = NewNames
    /\ scopes = <<NewScope("env", 0)>>
    /\ visit = NoVisit
    /\ \E bytes \in InputsOf(MaxInput) : lexer = Lexer(bytes, 1, FALSE, FALSE)

\* a call of next_token, by the parser or by Iterator::next; three calls more
\* than the input has units show what follows the EOF token
CallNextToken ==
    /\ calls < MaxInput + 3
    /\ LET r == NextToken(lexer)
       IN  /\ lexer' = r.lexer
           /\ last' = LexCall("next_token", lexer, r.tok, r.res)
    /\ calls' = calls + 1
    /\ UNCHANGED <<tvarVars, next_mark, mark_infos, hist, globals, scopes, visit>>

NextLex == CallNextToken

SpecLex == InitLex /\ [][NextLex]_vars

\* the units the latest call has read
Consumed == {lexer.bytes[i] : i \in last.before.pos .. (lexer.pos - 1)}

\* C39: a meta opener leaves the meta mode on; the meta mode goes off with a
\* Newline token and only so, and a call that reads a line break in meta mode
\* returns that Newline; at the end of the input the Newline comes before
\* EOF; EOF is returned once, and every call after it returns None.
C39_MetaClosed ==
    last.op = "next_token" =>
        /\ last.tok = "DashDashHash" => lexer.meta
        /\ (last.before.meta /\ ~lexer.meta) <=> last.tok = "Newline"
        /\ (last.before.meta /\ "n" \in Consumed) => last.tok = "Newline"
        /\ last.tok = "EOF" => (~last.before.meta /\ ~last.before.eof /\ lexer.eof)
        /\ last.before.eof => (last.tok = "None" /\ last.res = "ok" /\ lexer.eof)
        /\ calls = MaxInput + 3 => lexer.eof

NextValue ==
    \/ TakeTUnion
    \/ TakeFromSimplify
    \/ TakeAssertSub
    \/ TakeAssertEq

SpecValue == InitValue /\ [][NextValue]_vars

====
